---- MODULE Spec2Model ----
(***************************************************************************)
(* Secondary oplog application (mongo/db/repl/sync_tail.cpp) together with *)
(* the replication coordinator state it reads and writes.                  *)
(*                                                                         *)
(* An OpTime is modelled by its rank in the total order of optimes: a      *)
(* natural number, 0 being the null OpTime() and the Timestamp of an       *)
(* optime being the same number.                                           *)
(***************************************************************************)
EXTENDS Integers, Sequences, FiniteSets, TLC

\* Largest optime the oplog producer hands out.
MaxOpTime == 3
\* Largest number of entries of one batch (BatchLimits::ops).
MaxBatchOps == 2

VARIABLES
    \* ---- ReplicationCoordinator ----
    memberState,            \* _memberState
    maintenanceMode,        \* getMaintenanceMode()
    myLastAppliedOpTime,    \* _myLastAppliedOpTime
    myLastDurableOpTime,    \* _myLastDurableOpTime
    \* ---- ReplicationConsistencyMarkers / storage ----
    minValidDoc,            \* local.replset.minvalid
    appliedThrough,         \* appliedThrough marker
    oplogTruncateAfterPoint,
    oplogRs,                \* optimes written to local.oplog.rs
    oplogVisible,           \* last timestamp given to oplogDiskLocRegister
    \* ---- SyncTail options / storage engine ----
    isDurable,              \* StorageEngine::isDurable()
    skipWritesToOplog,      \* _options.skipWritesToOplog
    \* ---- OpQueueBatcher hand-off slot ----
    opsSlot,                \* OpQueueBatcher::_ops: [ops, mustShutdown]
    batcherDead,            \* OpQueueBatcher::_isDead
    \* ---- _oplogApplication locals ----
    pcDriver,
    minValid,
    ops,
    lastAppliedOpTimeAtStartOfBatch,
    \* ---- ApplyBatchFinalizerForJournal ----
    latestOpTime,           \* _latestOpTimeAndWallTime
    shutdownSignaled,       \* _shutdownSignaled
    pcWaiter,               \* position of _run
    waiterLatest,           \* _run's local latestOpTimeAndWallTime
    \* ---- multiApply: _fillWriterVectors and the writer pool ----
    numWriters,             \* writerVectors->size()
    supportsDocLocking,     \* StorageEngine::supportsDocLocking()
    beginApplyingOpTime,    \* _options.beginApplyingOpTime
    txnOplog,               \* entries of open transactions already in local.oplog.rs
    batch,                  \* the ops handed to multiApply
    writerVectors,          \* one vector of operations per writer thread
    derivedOps,             \* multiApply's derivedOps: the vectors of derived operations
    pcFill,                 \* position of multiApply around _fillWriterVectors
    pcWorker,               \* per writer: position of multiSyncApply
    workerPos,              \* per writer: the iterator 'it' of multiSyncApply
    appliedLog,             \* the operations applied to storage, in order
    \* ---- WiredTiger connection: data handles and the sweep server ----
    dhandles,               \* conn->dhqh: one record per WT_DATA_HANDLE
    open_btree_count,       \* conn->open_btree_count
    sweep_handles_min,      \* conn->sweep_handles_min
    sweep_idle_time,        \* conn->sweep_idle_time
    clock,                  \* __wt_seconds
    lastSweep,              \* __sweep_server's 'last'
    now,                    \* __sweep_server's 'now'
    pcSweep,                \* position of __sweep_server
    sweepCursor,            \* the handle the running TAILQ_FOREACH loop is at
    dead_handles,           \* __sweep_server's 'dead_handles'
    expireFrom,             \* open_btree_count when this sweep entered __sweep_expire, or -1
    sweepRet,               \* per handle, 'ret' of the call this sweep made for it
    metadata,               \* the metadata handle, first on the connection's list
    \* ---- OpQueueBatcher::run, tryPopAndWaitForMore and the oplog buffer ----
    oplogBuffer,            \* OplogBuffer: the fetched entries not yet consumed
    batcherOps,             \* run()'s local 'ops': [ops, mustShutdown]
    batchLimits,            \* run()'s local 'batchLimits'
    pcBatcher,              \* position of run()
    slaveDelaySecs,         \* ReplicationCoordinator::getSlaveDelaySecs()
    wallClock,              \* getFastClockSource()->now(), in seconds
    inShutdown,             \* inShutdown()
    currentTerm,            \* ReplicationCoordinator::getTerm()
    termWhenBufferIsEmpty,  \* _oplogApplication's local
    \* ---- errors: the applier state, the options that decide what is ignored ----
    applierState,           \* ReplicationCoordinator::getApplierState()
    applyOptions,           \* _options.missingDocumentSourceForInitialSync (set or not),
                            \* _options.allowNamespaceNotFoundErrorsOnCrudOps
    statusVector,           \* multiApply's statusVector: one Status per writer
    multiApplyStatus,       \* what multiApply returned: "none" until it returns
    \* ---- one database: UUIDCatalog and DatabaseCatalogEntry ----
    uuidCatalog,            \* UUIDCatalog: UUID -> namespace of the live Collection
    collections,            \* UUIDCatalog: namespace -> UUID of the live Collection
    dbEntry,                \* _dbEntry: namespace -> UUID in the storage catalog
    lastDropOpTime,         \* the latest optime given to a collection drop
    lastCall,               \* the last call of DatabaseImpl and what it returned
    pcCatalog               \* "none", "idle", "renameFailed" or "fatal"

coordVars == <<memberState, maintenanceMode, myLastAppliedOpTime, myLastDurableOpTime>>
markerVars == <<minValidDoc, appliedThrough, oplogTruncateAfterPoint, oplogRs, oplogVisible>>
optionVars == <<isDurable, skipWritesToOplog>>
batcherVars == <<opsSlot, batcherDead>>
driverVars == <<pcDriver, minValid, ops, lastAppliedOpTimeAtStartOfBatch>>
finalizerVars == <<latestOpTime, shutdownSignaled, pcWaiter, waiterLatest>>

fillVars == <<numWriters, supportsDocLocking, beginApplyingOpTime, txnOplog, batch,
              writerVectors, derivedOps, pcFill, pcWorker, workerPos, appliedLog>>

sweepVars == <<dhandles, open_btree_count, sweep_handles_min, sweep_idle_time, clock,
               lastSweep, now, pcSweep, sweepCursor, dead_handles, expireFrom,
               sweepRet, metadata>>

popVars == <<oplogBuffer, batcherOps, batchLimits, pcBatcher, slaveDelaySecs, wallClock,
             inShutdown, currentTerm, termWhenBufferIsEmpty>>

errVars == <<applierState, applyOptions, statusVector, multiApplyStatus>>

catalogVars == <<uuidCatalog, collections, dbEntry, lastDropOpTime, lastCall, pcCatalog>>

vars == <<coordVars, markerVars, optionVars, batcherVars, driverVars, finalizerVars, fillVars,
          sweepVars, popVars, errVars, catalogVars>>

\* What the steps of the oplog application driver leave alone.
nonDriverVars == <<fillVars, sweepVars, popVars, errVars, catalogVars>>

\* Number of data handles on the connection's list (the metadata handle, which
\* every sweep loop skips, is not one of them).
MaxHandles == 2
\* Last second of the clock.
MaxClock == 3

Handles == 1..MaxHandles

\* A data handle nobody has touched since it was opened.
FreshHandle ==
    [listed |-> TRUE, open |-> TRUE, exclusive |-> FALSE, dead |-> FALSE,
     session_inuse |-> 0, session_ref |-> 0, timeofdeath |-> 0,
     modified |-> FALSE, visibleAll |-> TRUE, writeLocked |-> FALSE]

\* No call of this sweep has returned anything but 0.
NoRet == [h \in Handles |-> "0"]

\* The connection has no data handles and the sweep server never runs while
\* oplog application is looked at on its own.
SweepIdle ==
    /\ dhandles = [h \in Handles |-> [FreshHandle EXCEPT !.listed = FALSE, !.open = FALSE]]
    /\ open_btree_count = 0
    /\ sweep_handles_min = 0
    /\ sweep_idle_time = 0
    /\ clock = 0
    /\ lastSweep = 0
    /\ now = 0
    /\ pcSweep = "stopped"
    /\ sweepCursor = 1
    /\ dead_handles = 0
    /\ expireFrom = -1
    /\ sweepRet = NoRet
    /\ metadata = FreshHandle

\* An OpQueue with nothing in it.
EmptyOpQueue == [ops |-> <<>>, mustShutdown |-> FALSE]

\* No slaveDelayLatestTimestamp (boost::none).
NoDelayLimit == [enabled |-> FALSE, at |-> 0]

\* The batcher thread is looked at through the hand-off slot only: the oplog
\* buffer and the locals of OpQueueBatcher::run are left out.
PopIdle ==
    /\ oplogBuffer = <<>>
    /\ batcherOps = EmptyOpQueue
    /\ batchLimits = [ops |-> MaxBatchOps, bytes |-> 0, slaveDelayLatestTimestamp |-> NoDelayLimit]
    /\ pcBatcher = "abstract"
    /\ slaveDelaySecs = 0
    /\ wallClock = 0
    /\ inShutdown = FALSE
    /\ currentTerm = 0
    /\ termWhenBufferIsEmpty = 0

\* The collections of the database, by UUID, and the names they can be
\* created under or renamed to.
UUIDs == {1, 2}
UserNamespaces == {1, 2, 3}
\* The optimes of the collection drops.
DropOpTimes == {1, 2}
\* NamespaceString::makeDropPendingNamespace
MakeDropPendingNamespace(nss, dropOpTime) == 10 * dropOpTime + nss
Namespaces ==
    UserNamespaces \cup
    { MakeDropPendingNamespace(n, t) : n \in UserNamespaces, t \in DropOpTimes }
\* No collection (a null Collection*), and the namespace of none.
NoColl == 0
NoNs == NoColl
NoCall == [op |-> "none", ns |-> NoNs, to |-> NoNs, status |-> "none", seq |-> 0]

\* The database has no collections and nothing calls it while replication
\* or the sweep server are looked at.
CatalogIdle ==
    /\ uuidCatalog = [u \in UUIDs |-> NoNs]
    /\ collections = [n \in Namespaces |-> NoColl]
    /\ dbEntry = [n \in Namespaces |-> NoColl]
    /\ lastDropOpTime = 0
    /\ lastCall = NoCall
    /\ pcCatalog = "none"

\* The applier is running, nothing is ignored beyond what the mode ignores,
\* and multiApply has not returned.
ErrIdle ==
    /\ applierState = "Running"
    /\ applyOptions = [missingDocumentSourceForInitialSync |-> FALSE,
                       allowNamespaceNotFoundErrorsOnCrudOps |-> FALSE]
    /\ statusVector = <<>>
    /\ multiApplyStatus = "none"

OpTimes == 0..MaxOpTime
NullOpTime == 0

Max(a, b) == IF a >= b THEN a ELSE b

Last(s) == s[Len(s)]

\* The batches the batcher can publish: non-empty runs of the source's oplog,
\* whose optimes are unique and increasing; where a run starts is up to the
\* producer.
IsIncreasing(s) == \A i \in 1..(Len(s) - 1) : s[i] < s[i + 1]

Batches ==
    { s \in UNION { [1..n -> 1..MaxOpTime] : n \in 1..MaxBatchOps } : IsIncreasing(s) }

EmptyQueue == [ops |-> <<>>, mustShutdown |-> FALSE]

MemberStates == {"RECOVERING", "SECONDARY", "PRIMARY", "ROLLBACK"}

(***************************************************************************)
(* ReplicationCoordinator setters and getters.                             *)
(***************************************************************************)

\* Mutant: the comparison of the forward setter is inverted.
SetMyLastAppliedOpTimeBackward(cur, new) == IF new < cur THEN new ELSE cur

\* setMyLastAppliedOpTimeAndWallTimeForward: the value after the call.
SetMyLastAppliedOpTimeForward(cur, new) == IF new > cur THEN new ELSE cur

\* setMyLastDurableOpTimeAndWallTimeForward: the value after the call.
SetMyLastDurableOpTimeForward(cur, new) == IF new > cur THEN new ELSE cur

IsInPrimaryOrSecondaryState == memberState \in {"PRIMARY", "SECONDARY"}

(***************************************************************************)
(* Initial state: _oplogApplication is entered with the batcher and the    *)
(* finalizer constructed.                                                  *)
(***************************************************************************)
\* The writer pool is idle while the driver is looked at on its own.
FillIdle ==
    /\ numWriters = 1
    /\ supportsDocLocking = FALSE
    /\ beginApplyingOpTime = NullOpTime
    /\ txnOplog = <<>>
    /\ batch = <<>>
    /\ writerVectors = <<>>
    /\ derivedOps = <<>>
    /\ pcFill = "idle"
    /\ pcWorker = <<>>
    /\ workerPos = <<>>
    /\ appliedLog = <<>>

InitDriver ==
    /\ memberState = "RECOVERING"
    /\ maintenanceMode = FALSE
    /\ myLastAppliedOpTime \in {NullOpTime, 2}
    /\ myLastDurableOpTime \in {NullOpTime, myLastAppliedOpTime}
    /\ minValidDoc \in {NullOpTime, 1, 3}
    /\ appliedThrough \in {NullOpTime, myLastAppliedOpTime}
    /\ oplogTruncateAfterPoint = NullOpTime
    /\ oplogRs = {}
    /\ oplogVisible = NullOpTime
    /\ isDurable \in BOOLEAN
    /\ skipWritesToOplog \in BOOLEAN
    /\ opsSlot = EmptyQueue
    /\ batcherDead = FALSE
    /\ pcDriver = "top"
    /\ minValid = NullOpTime
    /\ ops = <<>>
    /\ lastAppliedOpTimeAtStartOfBatch = NullOpTime
    /\ latestOpTime = NullOpTime
    /\ shutdownSignaled = FALSE
    /\ pcWaiter = IF isDurable THEN "wait" ELSE "none"
    /\ waiterLatest = NullOpTime

Init == InitDriver /\ FillIdle /\ SweepIdle /\ PopIdle /\ ErrIdle /\ CatalogIdle


(***************************************************************************)
(* OpQueueBatcher::run, seen from the hand-off slot: the batcher blocks    *)
(* until the previous batch has been taken, then publishes a non-empty     *)
(* batch, or an empty one carrying mustShutdown, after which it is dead.   *)
(***************************************************************************)
Alive == pcDriver \notin {"fatal", "done"}

BatcherPublish ==
    /\ Alive
    /\ ~batcherDead
    /\ opsSlot.ops = <<>>
    /\ \E b \in Batches :
          opsSlot' = [ops |-> b, mustShutdown |-> FALSE]
    /\ UNCHANGED <<batcherDead, coordVars, markerVars, optionVars, driverVars, finalizerVars>>
    /\ UNCHANGED nonDriverVars

BatcherPublishShutdown ==
    /\ Alive
    /\ ~batcherDead
    /\ opsSlot.ops = <<>>
    /\ opsSlot' = [ops |-> <<>>, mustShutdown |-> TRUE]
    /\ batcherDead' = TRUE
    /\ UNCHANGED <<coordVars, markerVars, optionVars, driverVars, finalizerVars>>
    /\ UNCHANGED nonDriverVars

(***************************************************************************)
(* Other threads of the replication coordinator: member state changes      *)
(* (election to PRIMARY, ROLLBACK, back to RECOVERING) and maintenance     *)
(* mode.  Going from RECOVERING to SECONDARY is left to the applier.       *)
(***************************************************************************)
EnvSetMemberState ==
    /\ Alive
    /\ \E s \in (MemberStates \ {"SECONDARY"}) \ {memberState} : memberState' = s
    /\ UNCHANGED <<maintenanceMode, myLastAppliedOpTime, myLastDurableOpTime,
                   markerVars, optionVars, batcherVars, driverVars, finalizerVars>>
    /\ UNCHANGED nonDriverVars

EnvSetMaintenanceMode ==
    /\ Alive
    /\ maintenanceMode' = ~maintenanceMode
    /\ UNCHANGED <<memberState, myLastAppliedOpTime, myLastDurableOpTime,
                   markerVars, optionVars, batcherVars, driverVars, finalizerVars>>
    /\ UNCHANGED nonDriverVars

(***************************************************************************)
(* tryToGoLiveAsASecondary.                                                *)
(***************************************************************************)

\* Mutant: the comparison with minValid is left out.
CanGoLiveNoMinValid(state, maintenance, lastApplied, minV) ==
    /\ state \notin {"PRIMARY", "SECONDARY"}
    /\ ~maintenance
    /\ state = "RECOVERING"

\* Mutant: lastApplied has to be strictly past minValid.
CanGoLiveStrictlyPast(state, maintenance, lastApplied, minV) ==
    /\ state \notin {"PRIMARY", "SECONDARY"}
    /\ ~maintenance
    /\ state = "RECOVERING"
    /\ minV < lastApplied

\* The checks made under the RSTL in mode X, in the order of the code; TRUE
\* when setFollowerMode(SECONDARY) is called.
CanGoLive(state, maintenance, lastApplied, minV) ==
    /\ state \notin {"PRIMARY", "SECONDARY"}
    /\ ~maintenance
    /\ state = "RECOVERING"
    /\ ~(lastApplied < minV)

\* Top of the loop: read minValid, then the lock-free early return of
\* tryToGoLiveAsASecondary.
DriverTop ==
    /\ pcDriver = "top"
    /\ minValid' = minValidDoc
    /\ pcDriver' = IF IsInPrimaryOrSecondaryState THEN "getBatch" ELSE "goLive"
    /\ UNCHANGED <<ops, lastAppliedOpTimeAtStartOfBatch,
                   coordVars, markerVars, optionVars, batcherVars, finalizerVars>>
    /\ UNCHANGED nonDriverVars

\* The part of tryToGoLiveAsASecondary that runs holding the RSTL in mode X.
\* setFollowerMode may fail; the failure is only logged.
DriverGoLive ==
    /\ pcDriver = "goLive"
    /\ IF CanGoLive(memberState, maintenanceMode, myLastAppliedOpTime, minValid)
       THEN \E ok \in BOOLEAN :
               memberState' = IF ok THEN "SECONDARY" ELSE memberState
       ELSE memberState' = memberState
    /\ pcDriver' = "getBatch"
    /\ UNCHANGED <<maintenanceMode, myLastAppliedOpTime, myLastDurableOpTime,
                   minValid, ops, lastAppliedOpTimeAtStartOfBatch,
                   markerVars, optionVars, batcherVars, finalizerVars>>
    /\ UNCHANGED nonDriverVars

(***************************************************************************)
(* SyncTail::_oplogApplication.                                            *)
(***************************************************************************)

\* OpQueueBatcher::getNextBatch: returns whatever is in the slot (nothing
\* when the wait timed out) and leaves the slot empty.
DriverGetNextBatch ==
    /\ pcDriver = "getBatch"
    /\ ops' = opsSlot.ops
    /\ opsSlot' = EmptyQueue
    /\ pcDriver' = IF opsSlot.ops = <<>>
                   THEN (IF opsSlot.mustShutdown THEN "dtor" ELSE "top")
                   ELSE "check"
    /\ UNCHANGED <<batcherDead, minValid, lastAppliedOpTimeAtStartOfBatch,
                   coordVars, markerVars, optionVars, finalizerVars>>
    /\ UNCHANGED nonDriverVars

\* Mutants of the order check: the comparison lets a repeated entry through;
\* the operands are swapped.
OplogOutOfOrderStrict(firstOpTimeInBatch, lastApplied) == firstOpTimeInBatch < lastApplied

OplogOutOfOrderSwapped(firstOpTimeInBatch, lastApplied) == lastApplied <= firstOpTimeInBatch

\* "Make sure the oplog doesn't go back in time or repeat an entry."
OplogOutOfOrder(firstOpTimeInBatch, lastApplied) == firstOpTimeInBatch <= lastApplied

DriverCheckOrder ==
    /\ pcDriver = "check"
    /\ lastAppliedOpTimeAtStartOfBatch' = myLastAppliedOpTime
    /\ pcDriver' = IF OplogOutOfOrder(Head(ops), myLastAppliedOpTime)
                   THEN "fatal" ELSE "multiApply"
    /\ UNCHANGED <<minValid, ops, coordVars, markerVars, optionVars, batcherVars, finalizerVars>>
    /\ UNCHANGED nonDriverVars

\* The applier state is not looked at.
IsApplierStoppedIgnored(state) == FALSE

\* replCoord->getApplierState() == ApplierState::Stopped
IsApplierStopped(state) == state = "Stopped"

\* multiApply, up to the scheduling of the oplog writes; with the applier
\* stopped it returns CannotApplyOplogWhilePrimary, which is fatal in the
\* driver (fassertNoTrace 34437).
DriverMultiApplyBegin ==
    /\ pcDriver = "multiApply"
    /\ IF IsApplierStopped(applierState)
       THEN /\ multiApplyStatus' = "CannotApplyOplogWhilePrimary"
            /\ pcDriver' = "fatal"
            /\ UNCHANGED oplogTruncateAfterPoint
       ELSE /\ oplogTruncateAfterPoint' =
                  IF skipWritesToOplog THEN oplogTruncateAfterPoint ELSE Head(ops)
            /\ pcDriver' = "writes"
            /\ UNCHANGED multiApplyStatus
    /\ UNCHANGED <<minValidDoc, appliedThrough, oplogRs, oplogVisible,
                   minValid, ops, lastAppliedOpTimeAtStartOfBatch,
                   coordVars, optionVars, batcherVars, finalizerVars>>
    /\ UNCHANGED <<fillVars, sweepVars, popVars, applierState, applyOptions, statusVector,
                   catalogVars>>

\* oplogTruncateAfterPoint is cleared, minValid is not raised.
DriverWritesDoneMinValidKept ==
    /\ pcDriver = "writes"
    /\ IF skipWritesToOplog
       THEN UNCHANGED <<oplogRs, oplogTruncateAfterPoint>>
       ELSE /\ oplogRs' = oplogRs \cup { ops[i] : i \in 1..Len(ops) }
            /\ oplogTruncateAfterPoint' = NullOpTime
    /\ pcDriver' = "apply"
    /\ UNCHANGED <<minValidDoc, appliedThrough, oplogVisible,
                   minValid, ops, lastAppliedOpTimeAtStartOfBatch,
                   coordVars, optionVars, batcherVars, finalizerVars>>
    /\ UNCHANGED nonDriverVars

\* The markers are left as they are until the appliers have run.
DriverWritesDoneMarkersKept ==
    /\ pcDriver = "writes"
    /\ oplogRs' = IF skipWritesToOplog THEN oplogRs
                  ELSE oplogRs \cup { ops[i] : i \in 1..Len(ops) }
    /\ pcDriver' = "apply"
    /\ UNCHANGED <<oplogTruncateAfterPoint, minValidDoc, appliedThrough, oplogVisible,
                   minValid, ops, lastAppliedOpTimeAtStartOfBatch,
                   coordVars, optionVars, batcherVars, finalizerVars>>
    /\ UNCHANGED nonDriverVars

\* multiApply: the oplog writers have finished (waitForIdle), the markers are
\* reset.
DriverWritesDone ==
    /\ pcDriver = "writes"
    /\ IF skipWritesToOplog
       THEN UNCHANGED <<oplogRs, oplogTruncateAfterPoint, minValidDoc>>
       ELSE /\ oplogRs' = oplogRs \cup { ops[i] : i \in 1..Len(ops) }
            /\ oplogTruncateAfterPoint' = NullOpTime
            /\ minValidDoc' = Max(minValidDoc, Last(ops))
    /\ pcDriver' = "apply"
    /\ UNCHANGED <<appliedThrough, oplogVisible,
                   minValid, ops, lastAppliedOpTimeAtStartOfBatch,
                   coordVars, optionVars, batcherVars, finalizerVars>>
    /\ UNCHANGED nonDriverVars

\* multiApply: the appliers have run; a non-OK worker status fails the batch,
\* which is fatal (fassertNoTrace 34437).
DriverApplied ==
    /\ pcDriver = "apply"
    /\ \E ok \in BOOLEAN : pcDriver' = IF ok THEN "setAppliedThrough" ELSE "fatal"
    /\ UNCHANGED <<minValid, ops, lastAppliedOpTimeAtStartOfBatch,
                   coordVars, markerVars, optionVars, batcherVars, finalizerVars>>
    /\ UNCHANGED nonDriverVars

\* appliedThrough is not persisted.
DriverSetAppliedThroughSkipped ==
    /\ pcDriver = "setAppliedThrough"
    /\ minValid' = IF Last(ops) > minValid THEN Last(ops) ELSE minValid
    /\ pcDriver' = IF lastAppliedOpTimeAtStartOfBatch = myLastAppliedOpTime
                   THEN "register" ELSE "fatal"
    /\ UNCHANGED <<markerVars, ops, lastAppliedOpTimeAtStartOfBatch,
                   coordVars, optionVars, batcherVars, finalizerVars>>
    /\ UNCHANGED nonDriverVars

\* 1. Persist our "applied through" optime to disk.
DriverSetAppliedThrough ==
    /\ pcDriver = "setAppliedThrough"
    /\ minValid' = IF Last(ops) > minValid THEN Last(ops) ELSE minValid
    /\ appliedThrough' = Last(ops)
    /\ pcDriver' = IF lastAppliedOpTimeAtStartOfBatch = myLastAppliedOpTime
                   THEN "register" ELSE "fatal"
    /\ UNCHANGED <<minValidDoc, oplogTruncateAfterPoint, oplogRs, oplogVisible,
                   ops, lastAppliedOpTimeAtStartOfBatch,
                   coordVars, optionVars, batcherVars, finalizerVars>>
    /\ UNCHANGED nonDriverVars

\* The batch is finalized without telling the storage engine of its entries.
DriverRegisterOplogSkipped ==
    /\ pcDriver = "register"
    /\ pcDriver' = "record"
    /\ UNCHANGED <<markerVars, minValid, ops, lastAppliedOpTimeAtStartOfBatch,
                   coordVars, optionVars, batcherVars, finalizerVars>>
    /\ UNCHANGED nonDriverVars

\* 3. Update oplog visibility.
DriverRegisterOplog ==
    /\ pcDriver = "register"
    /\ oplogVisible' = Last(ops)
    /\ pcDriver' = "record"
    /\ UNCHANGED <<minValidDoc, appliedThrough, oplogTruncateAfterPoint, oplogRs,
                   minValid, ops, lastAppliedOpTimeAtStartOfBatch,
                   coordVars, optionVars, batcherVars, finalizerVars>>
    /\ UNCHANGED nonDriverVars

(***************************************************************************)
(* ApplyBatchFinalizer and ApplyBatchFinalizerForJournal.                  *)
(***************************************************************************)

\* Mutant: record() does not publish lastApplied.
RecordAppliedSkipped(cur, new) == cur

\* _recordApplied: the replica's lastApplied after the call.
RecordApplied(cur, new) == SetMyLastAppliedOpTimeForward(cur, new)

\* _recordDurable with the call to the coordinator left out.
RecordDurableSkipped(cur, new) == cur

\* _recordDurable: the replica's lastDurable after the call.
RecordDurable(cur, new) == SetMyLastDurableOpTimeForward(cur, new)

\* The plain finalizer calls _recordDurable as well.
DriverRecordBoth ==
    /\ pcDriver = "record"
    /\ myLastAppliedOpTime' = RecordApplied(myLastAppliedOpTime, Last(ops))
    /\ myLastDurableOpTime' = IF isDurable THEN myLastDurableOpTime
                              ELSE RecordDurable(myLastDurableOpTime, Last(ops))
    /\ pcDriver' = IF isDurable THEN "recordLatest" ELSE "top"
    /\ ops' = IF isDurable THEN ops ELSE <<>>
    /\ UNCHANGED <<memberState, maintenanceMode,
                   minValid, lastAppliedOpTimeAtStartOfBatch,
                   markerVars, optionVars, batcherVars, finalizerVars>>
    /\ UNCHANGED nonDriverVars

\* 4. finalizer->record(): _recordApplied. The plain finalizer is done with
\* it; the journal finalizer goes on to hand the optime to its waiter.
DriverRecord ==
    /\ pcDriver = "record"
    /\ myLastAppliedOpTime' = RecordApplied(myLastAppliedOpTime, Last(ops))
    /\ pcDriver' = IF isDurable THEN "recordLatest" ELSE "top"
    /\ ops' = IF isDurable THEN ops ELSE <<>>
    /\ UNCHANGED <<memberState, maintenanceMode, myLastDurableOpTime,
                   minValid, lastAppliedOpTimeAtStartOfBatch,
                   markerVars, optionVars, batcherVars, finalizerVars>>
    /\ UNCHANGED nonDriverVars

\* ApplyBatchFinalizerForJournal::record, under _mutex.
DriverRecordLatest ==
    /\ pcDriver = "recordLatest"
    /\ latestOpTime' = Last(ops)
    /\ pcDriver' = "top"
    /\ ops' = <<>>
    /\ UNCHANGED <<shutdownSignaled, pcWaiter, waiterLatest,
                   minValid, lastAppliedOpTimeAtStartOfBatch,
                   coordVars, markerVars, optionVars, batcherVars>>
    /\ UNCHANGED nonDriverVars

\* ~ApplyBatchFinalizerForJournal, when _oplogApplication returns.
DriverFinalizerDtor ==
    /\ pcDriver = "dtor"
    /\ shutdownSignaled' = TRUE
    /\ pcDriver' = "join"
    /\ UNCHANGED <<latestOpTime, pcWaiter, waiterLatest,
                   minValid, ops, lastAppliedOpTimeAtStartOfBatch,
                   coordVars, markerVars, optionVars, batcherVars>>
    /\ UNCHANGED nonDriverVars

\* _waiterThread.join().
DriverJoin ==
    /\ pcDriver = "join"
    /\ pcWaiter \in {"exit", "none"}
    /\ pcDriver' = "done"
    /\ UNCHANGED <<minValid, ops, lastAppliedOpTimeAtStartOfBatch,
                   coordVars, markerVars, optionVars, batcherVars, finalizerVars>>
    /\ UNCHANGED nonDriverVars

\* _run: leaves the condition wait with the shutdown flag set, or with an
\* optime to make durable.
WaiterWake ==
    /\ pcDriver # "fatal"
    /\ pcWaiter = "wait"
    /\ latestOpTime # NullOpTime \/ shutdownSignaled
    /\ IF shutdownSignaled
       THEN /\ pcWaiter' = "exit"
            /\ UNCHANGED <<latestOpTime, waiterLatest>>
       ELSE /\ waiterLatest' = latestOpTime
            /\ latestOpTime' = NullOpTime
            /\ pcWaiter' = "flush"
    /\ UNCHANGED <<shutdownSignaled, coordVars, markerVars, optionVars, batcherVars, driverVars>>
    /\ UNCHANGED nonDriverVars

\* _run: waitUntilDurable() has returned; _recordDurable.
WaiterRecordDurable ==
    /\ pcDriver # "fatal"
    /\ pcWaiter = "flush"
    /\ myLastDurableOpTime' = RecordDurable(myLastDurableOpTime, waiterLatest)
    /\ pcWaiter' = "wait"
    /\ UNCHANGED <<memberState, maintenanceMode, myLastAppliedOpTime,
                   latestOpTime, shutdownSignaled, waiterLatest,
                   markerVars, optionVars, batcherVars, driverVars>>
    /\ UNCHANGED nonDriverVars

Next ==
    \/ BatcherPublish
    \/ BatcherPublishShutdown
    \/ DriverTop
    \/ DriverGoLive
    \/ DriverGetNextBatch
    \/ DriverCheckOrder
    \/ DriverMultiApplyBegin
    \/ DriverWritesDone
    \/ DriverApplied
    \/ DriverSetAppliedThrough
    \/ DriverRegisterOplog
    \/ DriverRecord
    \/ DriverRecordLatest
    \/ DriverFinalizerDtor
    \/ DriverJoin
    \/ WaiterWake
    \/ WaiterRecordDurable

Spec == Init /\ [][Next]_vars

\* The driver with the plain finalizer, beside the coordinator's other threads.
InitGoLive == Init /\ ~isDurable

NextGoLive ==
    \/ BatcherPublish
    \/ BatcherPublishShutdown
    \/ EnvSetMemberState
    \/ EnvSetMaintenanceMode
    \/ DriverTop
    \/ DriverGoLive
    \/ DriverGetNextBatch
    \/ DriverCheckOrder
    \/ DriverMultiApplyBegin
    \/ DriverWritesDone
    \/ DriverApplied
    \/ DriverSetAppliedThrough
    \/ DriverRegisterOplog
    \/ DriverRecord
    \/ DriverFinalizerDtor
    \/ DriverJoin

SpecGoLive == InitGoLive /\ [][NextGoLive]_vars

\* The thread that runs _oplogApplication.
DriverLoop ==
    \/ DriverTop
    \/ DriverGoLive
    \/ DriverGetNextBatch
    \/ DriverCheckOrder
    \/ DriverMultiApplyBegin
    \/ DriverWritesDone
    \/ DriverApplied
    \/ DriverSetAppliedThrough
    \/ DriverRegisterOplog
    \/ DriverRecord
    \/ DriverFinalizerDtor
    \/ DriverJoin

\* A call of setFollowerMode(SECONDARY) that returns OK.
SetFollowerModeOK == DriverGoLive /\ memberState' = "SECONDARY"

\* The driver thread keeps running (getNextBatch waits at most one second),
\* and setFollowerMode does not fail on every call for ever.
SpecGoLiveFair ==
    /\ InitGoLive
    /\ [][NextGoLive]_vars
    /\ WF_vars(DriverLoop)
    /\ SF_vars(SetFollowerModeOK)

(***************************************************************************)
(* Claims about the pipeline driver and the finalizer.                     *)
(***************************************************************************)

InMultiApply == pcDriver \in {"multiApply", "writes", "apply"}

\* C1: a non-empty batch is handed to multiApply only if the optime of its
\* first entry is strictly greater than the lastApplied read for that batch;
\* otherwise the driver fails fatally, and that step writes no oplog entry,
\* changes no marker and advances no optime.
C1_BatchAfterLastApplied ==
    /\ [](InMultiApply => Head(ops) > lastAppliedOpTimeAtStartOfBatch)
    /\ [][(pcDriver = "check" /\ pcDriver' # "check") =>
             IF Head(ops) > myLastAppliedOpTime
             THEN pcDriver' = "multiApply"
             ELSE pcDriver' = "fatal" /\ UNCHANGED <<coordVars, markerVars>>]_vars

\* A batch of two entries is in multiApply on a node that had applied entries.
C1_Witness ==
    /\ pcDriver = "multiApply"
    /\ Len(ops) = 2
    /\ lastAppliedOpTimeAtStartOfBatch > NullOpTime

\* C2: when the finalizer's record() has run for a batch B, lastApplied is
\* the optime of the last entry of B.
C2_LastAppliedIsLastOfBatch ==
    [][(pcDriver = "record" /\ pcDriver' # "record") =>
          myLastAppliedOpTime' = Last(ops)]_vars

\* A second batch, of two entries, has been recorded.
C2_Witness ==
    /\ pcDriver = "recordLatest"
    /\ Len(ops) = 2
    /\ Cardinality(oplogRs) = 3
    /\ myLastAppliedOpTime = Last(ops)

\* C3: the persisted appliedThrough marker never decreases.
C3_AppliedThroughMonotonic ==
    [][appliedThrough' >= appliedThrough]_vars

\* appliedThrough has been written by a batch after an earlier batch wrote it.
C3_Witness ==
    /\ pcDriver = "register"
    /\ lastAppliedOpTimeAtStartOfBatch = 1
    /\ appliedThrough = Last(ops)
    /\ appliedThrough > lastAppliedOpTimeAtStartOfBatch

\* C4: tryToGoLiveAsASecondary changes the member state only to SECONDARY,
\* and only from RECOVERING, outside maintenance mode, with
\* lastApplied >= minValid.
C4_GoLiveOnlyWhenConsistent ==
    [][(pcDriver = "goLive" /\ pcDriver' # "goLive" /\ memberState' # memberState) =>
          /\ memberState' = "SECONDARY"
          /\ memberState = "RECOVERING"
          /\ ~maintenanceMode
          /\ myLastAppliedOpTime >= minValidDoc]_vars

\* The node went SECONDARY after a batch had brought lastApplied up to a
\* minValid that was ahead of it.
C4_Witness ==
    /\ memberState = "SECONDARY"
    /\ pcDriver = "getBatch"
    /\ minValidDoc >= 3
    /\ myLastAppliedOpTime >= minValidDoc

\* C5: lastApplied never decreases, lastDurable never decreases, and
\* lastDurable <= lastApplied, with the journal waiter running beside the
\* driver.
C5_DurableBehindApplied ==
    /\ [](myLastDurableOpTime <= myLastAppliedOpTime)
    /\ [][/\ myLastAppliedOpTime' >= myLastAppliedOpTime
          /\ myLastDurableOpTime' >= myLastDurableOpTime]_vars

\* The waiter has made one batch durable and is flushing for the next while
\* the driver has already recorded a later one.
C5_Witness ==
    /\ pcWaiter = "flush"
    /\ myLastDurableOpTime = 1
    /\ waiterLatest > myLastDurableOpTime
    /\ myLastAppliedOpTime > waiterLatest


(***************************************************************************)
(* Oplog entries as _fillWriterVectors and the appliers see them.          *)
(*                                                                         *)
(* An entry carries its optime, op type, namespace, the _id of its         *)
(* document (id), its payload o (a token, different for every operation    *)
(* of a run), the command type found in o (cmd, with the prepared /        *)
(* prepare flag and, for applyOps, the inner operations), the inTxn flag   *)
(* of an operation of a not yet committed multi-entry transaction, and     *)
(* the session fields lsid, txnNumber and prevOpTime.                      *)
(***************************************************************************)

\* Largest number of writer threads of the pool.
MaxWriters == 2
\* Largest number of entries of a batch handed to multiApply.
MaxFillOps == 3

\* The namespaces of the model, in the order of their strings.
NsOrder == <<"a", "admin.$cmd", "c", "config.transactions">>

\* The catalog: the capped collections.
CappedCollections == {"c"}

Sessions == {1}

Entry(opTime, opType, ns, id, o) ==
    [opTime |-> opTime, opType |-> opType, ns |-> ns, id |-> id, o |-> o,
     cmd |-> "none", prepared |-> FALSE, inner |-> <<>>, inTxn |-> FALSE,
     session |-> 0, txnNumber |-> 0, prevOpTime |-> NullOpTime,
     isForCappedCollection |-> FALSE]

IsCrudOpType(op) == op.opType \in {"i", "u", "d"}

IsUnpreparedCommit(entry) == entry.cmd = "commitTransaction" /\ ~entry.prepared

IsUnpreparedApplyOps(entry) == entry.cmd = "applyOps" /\ ~entry.prepared

\* CachedCollectionProperties::getCollectionProperties(...).isCapped
IsCapped(ns) == ns \in CappedCollections

(***************************************************************************)
(* Hashing.  StringMapHasher, BSONElementComparator::hash and              *)
(* MurmurHash3_x86_32 are library functions; they are stood in for by      *)
(* fixed functions with the same signatures, under which two namespaces    *)
(* and two _ids of one namespace can both collide and differ modulo the    *)
(* number of writers.  Their values stay far below 2^32, so the uint32_t  *)
(* arithmetic of the code never wraps here.                                *)
(***************************************************************************)
NsHash(ns) ==
    CASE ns = "a" -> 6
      [] ns = "c" -> 3
      [] ns = "admin.$cmd" -> 4
      [] OTHER -> 5

IdHash(id) == id

MurmurHash3(key, seed) == seed * 31 + key * 7 + 3

\* Mutant: the _id is hashed in for capped collections as well.
OpHashIgnoringCapped(op) ==
    LET hash == NsHash(op.ns)
    IN  IF IsCrudOpType(op) /\ supportsDocLocking
        THEN MurmurHash3(IdHash(op.id), hash)
        ELSE hash

\* Mutant: the kind of operation is hashed in with the _id.
OpHashWithOpType(op) ==
    LET hash == NsHash(op.ns)
    IN  IF IsCrudOpType(op) /\ supportsDocLocking /\ ~IsCapped(op.ns)
        THEN MurmurHash3(IdHash(op.id) + (IF op.opType = "d" THEN 1 ELSE 0), hash)
        ELSE hash

\* The value of 'hash' when the op is pushed to its writer.
OpHash(op) ==
    LET hash == NsHash(op.ns)
    IN  IF IsCrudOpType(op) /\ supportsDocLocking /\ ~IsCapped(op.ns)
        THEN MurmurHash3(IdHash(op.id), hash)
        ELSE hash

\* "Mark capped collection ops before storing them".
FlagCapped(op) ==
    IF IsCrudOpType(op) /\ op.opType = "i" /\ IsCapped(op.ns)
    THEN [op EXCEPT !.isForCappedCollection = TRUE]
    ELSE op

\* Mutant: the writer is picked round the wrong modulus.
WriterIndexOffByOne(hash, n) == ((hash % (n + 1)) % n) + 1

\* (*writerVectors)[hash % numWriters], writers being numbered from 1.
WriterIndex(hash, n) == (hash % n) + 1

(***************************************************************************)
(* ApplyOps::extractOperations: the inner operations of an applyOps entry, *)
(* each with the entry's optime and session fields.                        *)
(***************************************************************************)
ExtractOperations(op) ==
    [j \in 1..Len(op.inner) |->
        [Entry(op.opTime, op.inner[j].opType, op.inner[j].ns, op.inner[j].id, op.inner[j].o)
            EXCEPT !.session = op.session, !.txnNumber = op.txnNumber,
                   !.prevOpTime = op.prevOpTime]]

(***************************************************************************)
(* readTransactionOperationsFromOplogChain.  'visible' is what a read of   *)
(* local.oplog.rs returns.                                                 *)
(***************************************************************************)
Reverse(s) == [i \in 1..Len(s) |-> s[Len(s) + 1 - i]]

EntriesAt(t, visible) == { i \in 1..Len(visible) : visible[i].opTime = t }

\* TransactionHistoryIterator: the entries from optime t back along
\* prevOpTime, latest first; it stops at the null optime.
RECURSIVE HistoryFrom(_, _)
HistoryFrom(t, visible) ==
    IF t = NullOpTime \/ EntriesAt(t, visible) = {}
    THEN <<>>
    ELSE LET e == visible[CHOOSE i \in EntriesAt(t, visible) : TRUE]
         IN  <<e>> \o HistoryFrom(e.prevOpTime, visible)

\* The iterator is asked for an entry the oplog does not hold.
RECURSIVE HistoryBroken(_, _)
HistoryBroken(t, visible) ==
    IF t = NullOpTime THEN FALSE
    ELSE IF EntriesAt(t, visible) = {} THEN TRUE
    ELSE HistoryBroken(visible[CHOOSE i \in EntriesAt(t, visible) : TRUE].prevOpTime, visible)

\* Mutant: the fields of the operation win over those of the commit entry.
RebuildKeepingOpFields(operationEntry, commitOrPrepare) ==
    [operationEntry EXCEPT !.inTxn = FALSE, !.isForCappedCollection = FALSE]

\* "Reconstruct the entry as if it were at the commit or prepare time": the
\* ReplOperation fields of the operation (op, ns, o), then the fields of the
\* commit or prepare entry that are not among them.
Rebuild(operationEntry, commitOrPrepare) ==
    [opTime |-> commitOrPrepare.opTime,
     opType |-> operationEntry.opType,
     ns |-> operationEntry.ns,
     id |-> operationEntry.id,
     o |-> operationEntry.o,
     cmd |-> operationEntry.cmd,
     prepared |-> operationEntry.prepared,
     inner |-> operationEntry.inner,
     inTxn |-> commitOrPrepare.inTxn,
     session |-> commitOrPrepare.session,
     txnNumber |-> commitOrPrepare.txnNumber,
     prevOpTime |-> commitOrPrepare.prevOpTime,
     isForCappedCollection |-> FALSE]

LastEntryOpTime(commitOrPrepare, cachedOps) ==
    IF cachedOps = <<>> THEN commitOrPrepare.prevOpTime ELSE cachedOps[1].prevOpTime

\* One of the invariants of the function fails, or the history iterator does.
ReadTransactionOperationsFails(commitOrPrepare, cachedOps, visible) ==
    LET lastEntryOpTime == LastEntryOpTime(commitOrPrepare, cachedOps)
        fromOplog == HistoryFrom(lastEntryOpTime, visible)
    IN  \/ ~(lastEntryOpTime < commitOrPrepare.opTime)
        \/ HistoryBroken(lastEntryOpTime, visible)
        \/ /\ commitOrPrepare.cmd = "commitTransaction"
           /\ cachedOps = <<>>
           /\ fromOplog = <<>>
        \/ \E i \in 1..Len(fromOplog) : ~fromOplog[i].inTxn
        \/ \E i \in 1..Len(cachedOps) : ~cachedOps[i].inTxn

ReadTransactionOperationsFromOplogChain(commitOrPrepare, cachedOps, visible) ==
    LET lastEntryOpTime == LastEntryOpTime(commitOrPrepare, cachedOps)
        fromOplog == Reverse(HistoryFrom(lastEntryOpTime, visible))
        all == fromOplog \o cachedOps
    IN  [i \in 1..Len(all) |-> Rebuild(all[i], commitOrPrepare)]

(***************************************************************************)
(* SessionUpdateTracker: remembers, per session, the optime of the last    *)
(* operation seen with session information; flushAll turns what it         *)
(* remembers into updates of config.transactions.                          *)
(***************************************************************************)
EmptyTracker == [s \in Sessions |-> NullOpTime]

UpdateOrFlush(tracker, op) ==
    IF op.session \in Sessions THEN [tracker EXCEPT ![op.session] = op.opTime] ELSE tracker

RECURSIVE FlushFrom(_, _)
FlushFrom(tracker, todo) ==
    IF todo = {} THEN <<>>
    ELSE LET s == CHOOSE x \in todo : \A y \in todo : x <= y
             rest == FlushFrom(tracker, todo \ {s})
         IN  IF tracker[s] = NullOpTime THEN rest
             ELSE <<[Entry(tracker[s], "u", "config.transactions", s, 200 + s)
                       EXCEPT !.session = s]>> \o rest

FlushAll(tracker) == FlushFrom(tracker, Sessions)

(***************************************************************************)
(* SyncTail::_fillWriterVectors.  The state threaded through the loop:     *)
(* the writer vectors, pendingTxnOps (local to one invocation), the        *)
(* session update tracker, and whether an fassert has fired.               *)
(***************************************************************************)
EmptyPending == [s \in Sessions |-> <<>>]

\* Mutant: an entry of a pending transaction is saved and dispatched too.
HoldPendingAndPush(st, op) ==
    LET pendingList == st.pending[op.session]
        kept == IF pendingList # <<>> /\ pendingList[1].txnNumber # op.txnNumber
                THEN <<>> ELSE pendingList
    IN  [st EXCEPT !.pending[op.session] = Append(kept, op),
                   !.writers[WriterIndex(OpHash(op), numWriters)] = Append(@, FlagCapped(op))]

\* Mutant: the list of the session is kept when the txnNumber changes.
HoldPendingNoClear(st, op) ==
    [st EXCEPT !.pending[op.session] = Append(@, op)]

\* "If this entry is part of a multi-oplog-entry transaction, ignore it until
\* the commit."
HoldPending(st, op) ==
    LET pendingList == st.pending[op.session]
        kept == IF pendingList # <<>> /\ pendingList[1].txnNumber # op.txnNumber
                THEN <<>> ELSE pendingList
    IN  [st EXCEPT !.pending[op.session] = Append(kept, op)]

\* Mutant: the operation is put at the front of its writer's vector.
PushFrontToWriter(st, op) ==
    [st EXCEPT !.writers[WriterIndex(OpHash(op), numWriters)] = <<FlagCapped(op)>> \o @]

\* Mutant: an operation is dropped when its writer already holds one.
PushToWriterIfEmpty(st, op) ==
    IF st.writers[WriterIndex(OpHash(op), numWriters)] = <<>>
    THEN [st EXCEPT !.writers[WriterIndex(OpHash(op), numWriters)] = <<FlagCapped(op)>>]
    ELSE st

\* writer.push_back(&op)
PushToWriter(st, op) ==
    [st EXCEPT !.writers[WriterIndex(OpHash(op), numWriters)] = Append(@, FlagCapped(op))]

\* Mutant: only an optime strictly before beginApplyingOpTime is skipped.
StrictlyBeforeBeginApplying(op) == op.opTime < beginApplyingOpTime

\* "If the operation's optime is before or the same as the
\* beginApplyingOpTime we don't want to apply it".
BeforeOrAtBeginApplying(op) == op.opTime <= beginApplyingOpTime

RECURSIVE FillOps(_, _, _, _)
FillOps(opsList, st, track, visible) ==
    IF opsList = <<>> \/ st.fatal THEN st
    ELSE
      LET op == Head(opsList)
          st1 == IF track THEN [st EXCEPT !.tracker = UpdateOrFlush(st.tracker, op)] ELSE st
          next ==
            IF BeforeOrAtBeginApplying(op) THEN st
            ELSE IF op.inTxn THEN HoldPending(st1, op)
            ELSE IF IsUnpreparedApplyOps(op) THEN
                [FillOps(ExtractOperations(op),
                         [st1 EXCEPT !.pending = EmptyPending,
                                     !.derived = Append(@, ExtractOperations(op))],
                         FALSE, visible)
                    EXCEPT !.pending = st1.pending]
            ELSE IF IsUnpreparedCommit(op) THEN
                LET pendingList == st1.pending[op.session]
                IN  IF ReadTransactionOperationsFails(op, pendingList, visible)
                    THEN [st1 EXCEPT !.fatal = TRUE]
                    ELSE [FillOps(ReadTransactionOperationsFromOplogChain(
                                      op, pendingList, visible),
                                  [st1 EXCEPT !.pending = EmptyPending,
                                              !.derived = Append(@,
                                                  ReadTransactionOperationsFromOplogChain(
                                                      op, pendingList, visible))],
                                  FALSE, visible)
                            EXCEPT !.pending = [st1.pending EXCEPT ![op.session] = <<>>]]
            ELSE PushToWriter(st1, op)
      IN  FillOps(Tail(opsList), next, track, visible)

\* The overload multiApply calls: the loop with a session update tracker,
\* then the tracker's remaining updates.
FillWriterVectors(opsList, visible) ==
    LET st0 == [writers |-> [w \in 1..numWriters |-> <<>>],
                pending |-> EmptyPending,
                tracker |-> EmptyTracker,
                derived |-> <<>>,
                fatal |-> FALSE]
        st1 == FillOps(opsList, st0, TRUE, visible)
        newOplogWrites == FlushAll(st1.tracker)
    IN  IF newOplogWrites = <<>> THEN st1
        ELSE FillOps(newOplogWrites,
                     [st1 EXCEPT !.pending = EmptyPending,
                                 !.derived = Append(@, newOplogWrites)],
                     FALSE, visible)

(***************************************************************************)
(* multiSyncApply.                                                         *)
(***************************************************************************)
RECURSIVE SortFrom(_, _)
SortFrom(s, r) ==
    IF r > Len(NsOrder) THEN <<>>
    ELSE SelectSeq(s, LAMBDA e : e.ns = NsOrder[r]) \o SortFrom(s, r + 1)

\* ApplierHelpers::stableSortByNamespace
StableSortByNamespace(s) == SortFrom(s, 1)

\* InsertGroup::groupAndApplyInserts: the sizes of the group that can be
\* applied at position pos: consecutive inserts into one namespace, none of
\* them flagged isForCappedCollection.
RECURSIVE InsertRun(_, _)
InsertRun(v, pos) ==
    IF /\ pos < Len(v)
       /\ v[pos].opType = "i" /\ v[pos + 1].opType = "i"
       /\ v[pos].ns = v[pos + 1].ns
       /\ ~v[pos].isForCappedCollection /\ ~v[pos + 1].isForCappedCollection
    THEN 1 + InsertRun(v, pos + 1)
    ELSE 1

(***************************************************************************)
(* The batches multiApply is called with.  A batch is a run of the oplog:  *)
(* inserts and deletes on the collection "a" and the capped collection     *)
(* "c", an applyOps command, entries of the multi-entry transaction 2 of   *)
(* one session and its commit; or one other command alone.  The entry at   *)
(* position i has optime 1 + i and payload 10 * i.                         *)
(***************************************************************************)
Kinds == {"insA1", "insA2", "delA1", "insC2", "applyOps", "txn2", "commit"}

KindSeqs == UNION { [1..n -> Kinds] : n \in 1..MaxFillOps } \cup { <<"create">> }

BatchOpTime(i) == 1 + i

\* The entry of transaction 2 that an earlier batch has written to the oplog
\* (optime 1, payload 1).
DiskEntry ==
    [Entry(1, "i", "a", 2, 1) EXCEPT !.inTxn = TRUE, !.session = 1, !.txnNumber = 2]

TxnOf(k) == IF k \in {"txn2", "commit"} THEN 2 ELSE IF k = "txn1" THEN 1 ELSE 0

Positions(ks, k) == { i \in 1..Len(ks) : ks[i] = k }

\* What the primary can have written: the commit of the transaction comes
\* once, after its entries, and is never that of an empty transaction.
ValidKinds(ks, disk) ==
    /\ Cardinality(Positions(ks, "commit")) <= 1
    /\ \A i \in Positions(ks, "txn2") : \A c \in Positions(ks, "commit") : i < c
    /\ Positions(ks, "commit") # {} => (disk # <<>> \/ Positions(ks, "txn2") # {})

\* prevOpTime of the entry at position i: the previous entry of its
\* transaction, in the batch or on disk.
PrevOpTimeOf(ks, i, disk) ==
    LET earlier == { j \in 1..(i - 1) : TxnOf(ks[j]) = TxnOf(ks[i]) }
    IN  IF earlier # {} THEN BatchOpTime(CHOOSE j \in earlier : \A x \in earlier : x <= j)
        ELSE IF TxnOf(ks[i]) = 2 /\ disk # <<>> THEN disk[Len(disk)].opTime
        ELSE NullOpTime

EntryOfKind(ks, i, disk) ==
    LET t == BatchOpTime(i)
        k == ks[i]
    IN  CASE k = "insA1" -> Entry(t, "i", "a", 1, 10 * i)
          [] k = "insA2" -> Entry(t, "i", "a", 2, 10 * i)
          [] k = "delA1" -> Entry(t, "d", "a", 1, 10 * i)
          [] k = "insC2" -> Entry(t, "i", "c", 2, 10 * i)
          [] k = "applyOps" ->
                [Entry(t, "c", "admin.$cmd", 0, 10 * i) EXCEPT
                    !.cmd = "applyOps",
                    !.inner = << [opType |-> "i", ns |-> "a", id |-> 2, o |-> 10 * i + 1],
                                 [opType |-> "i", ns |-> "c", id |-> 1, o |-> 10 * i + 2] >>]
          [] k = "txn2" ->
                [Entry(t, "i", "c", 2, 10 * i) EXCEPT
                    !.inTxn = TRUE, !.session = 1, !.txnNumber = 2,
                    !.prevOpTime = PrevOpTimeOf(ks, i, disk)]
          [] k = "txn1" ->
                [Entry(t, "i", "a", 1, 10 * i) EXCEPT
                    !.inTxn = TRUE, !.session = 1, !.txnNumber = 1,
                    !.prevOpTime = PrevOpTimeOf(ks, i, disk)]
          [] k = "commit" ->
                [Entry(t, "c", "admin.$cmd", 0, 10 * i) EXCEPT
                    !.cmd = "commitTransaction", !.session = 1, !.txnNumber = 2,
                    !.prevOpTime = PrevOpTimeOf(ks, i, disk)]
          [] OTHER -> [Entry(t, "c", "admin.$cmd", 0, 10 * i) EXCEPT !.cmd = "create"]

BatchOfKinds(ks, disk) == [i \in 1..Len(ks) |-> EntryOfKind(ks, i, disk)]

(***************************************************************************)
(* multiApply from the call of _fillWriterVectors to the end of            *)
(* waitForIdle, with the driver parked inside it.                          *)
(***************************************************************************)
driverSide == <<coordVars, markerVars, optionVars, batcherVars, driverVars, finalizerVars>>

\* What the steps of multiApply leave alone.
nonFillVars == <<driverSide, sweepVars, popVars, errVars, catalogVars>>

DriverInMultiApply ==
    /\ memberState = "RECOVERING"
    /\ maintenanceMode = FALSE
    /\ myLastAppliedOpTime = Len(txnOplog)
    /\ myLastDurableOpTime = NullOpTime
    /\ minValidDoc = NullOpTime
    /\ appliedThrough = NullOpTime
    /\ oplogTruncateAfterPoint = NullOpTime
    /\ oplogRs = {}
    /\ oplogVisible = NullOpTime
    /\ isDurable = FALSE
    /\ skipWritesToOplog = FALSE
    /\ opsSlot = EmptyQueue
    /\ batcherDead = FALSE
    /\ pcDriver = "writes"
    /\ minValid = NullOpTime
    /\ ops = [i \in 1..Len(batch) |-> batch[i].opTime]
    /\ lastAppliedOpTimeAtStartOfBatch = Len(txnOplog)
    /\ latestOpTime = NullOpTime
    /\ shutdownSignaled = FALSE
    /\ pcWaiter = "none"
    /\ waiterLatest = NullOpTime

InitFill ==
    /\ numWriters \in 1..MaxWriters
    /\ supportsDocLocking \in BOOLEAN
    /\ txnOplog \in {<<>>, <<DiskEntry>>}
    /\ \E ks \in KindSeqs :
          /\ ValidKinds(ks, txnOplog)
          /\ txnOplog # <<>> => Positions(ks, "commit") # {}
          /\ batch = BatchOfKinds(ks, txnOplog)
    /\ beginApplyingOpTime \in {NullOpTime, BatchOpTime(1)}
    /\ writerVectors = [w \in 1..numWriters |-> <<>>]
    /\ derivedOps = <<>>
    /\ pcFill = "start"
    /\ pcWorker = [w \in 1..numWriters |-> "idle"]
    /\ workerPos = [w \in 1..numWriters |-> 1]
    /\ appliedLog = <<>>
    /\ DriverInMultiApply
    /\ SweepIdle
    /\ PopIdle
    /\ ErrIdle
    /\ CatalogIdle

\* _fillWriterVectors, then _applyOps: a task is scheduled for every writer
\* whose vector is not empty.  The oplog writer threads run meanwhile, so a
\* read of the oplog may or may not see the entries of this batch.
FillAndSchedule ==
    /\ pcFill = "start"
    /\ \E written \in BOOLEAN :
          LET visible == IF written THEN txnOplog \o batch ELSE txnOplog
              r == FillWriterVectors(batch, visible)
          IN  IF r.fatal
              THEN /\ pcFill' = "fatal"
                   /\ UNCHANGED <<writerVectors, derivedOps, pcWorker>>
              ELSE /\ pcFill' = "waitForIdle"
                   /\ writerVectors' = r.writers
                   /\ derivedOps' = r.derived
                   /\ pcWorker' = [w \in 1..numWriters |->
                                      IF r.writers[w] = <<>> THEN "idle" ELSE "scheduled"]
    /\ UNCHANGED <<numWriters, supportsDocLocking, beginApplyingOpTime, txnOplog, batch,
                   workerPos, appliedLog>>
    /\ UNCHANGED nonFillVars

\* multiSyncApply up to its loop: the vector is sorted by namespace.
WorkerSort(w) ==
    /\ pcFill = "waitForIdle"
    /\ pcWorker[w] = "scheduled"
    /\ writerVectors' = [writerVectors EXCEPT ![w] = StableSortByNamespace(@)]
    /\ pcWorker' = [pcWorker EXCEPT ![w] = "loop"]
    /\ workerPos' = [workerPos EXCEPT ![w] = 1]
    /\ UNCHANGED <<numWriters, supportsDocLocking, beginApplyingOpTime, txnOplog, batch,
                   derivedOps, pcFill, appliedLog>>
    /\ UNCHANGED nonFillVars

LogEntry(op, w, grouped) ==
    [o |-> op.o, opTime |-> op.opTime, opType |-> op.opType, ns |-> op.ns, id |-> op.id,
     capped |-> op.isForCappedCollection, worker |-> w, grouped |-> grouped]

\* One round of the loop of multiSyncApply: a group of inserts, or the
\* operation at 'it' alone.
WorkerApply(w) ==
    /\ pcFill = "waitForIdle"
    /\ pcWorker[w] = "loop"
    /\ LET v == writerVectors[w]
           pos == workerPos[w]
       IN  \E k \in 1..InsertRun(v, pos) :
              /\ appliedLog' = appliedLog \o
                     [i \in 1..k |-> LogEntry(v[pos + i - 1], w, k > 1)]
              /\ workerPos' = [workerPos EXCEPT ![w] = pos + k]
              /\ pcWorker' = [pcWorker EXCEPT
                                 ![w] = IF pos + k > Len(v) THEN "idle" ELSE "loop"]
    /\ UNCHANGED <<numWriters, supportsDocLocking, beginApplyingOpTime, txnOplog, batch,
                   writerVectors, derivedOps, pcFill>>
    /\ UNCHANGED nonFillVars

\* waitForIdle returns.
FillWaitForIdle ==
    /\ pcFill = "waitForIdle"
    /\ \A w \in 1..numWriters : pcWorker[w] = "idle"
    /\ pcFill' = "applied"
    /\ UNCHANGED <<numWriters, supportsDocLocking, beginApplyingOpTime, txnOplog, batch,
                   writerVectors, derivedOps, pcWorker, workerPos, appliedLog>>
    /\ UNCHANGED nonFillVars

NextFill ==
    \/ FillAndSchedule
    \/ \E w \in 1..numWriters : WorkerSort(w)
    \/ \E w \in 1..numWriters : WorkerApply(w)
    \/ FillWaitForIdle

SpecFill == InitFill /\ [][NextFill]_vars

(***************************************************************************)
(* The same steps on batches in which one session runs two transactions:   *)
(* transaction 1, which the primary never committed, then transaction 2.   *)
(***************************************************************************)
TxnKinds == {"txn1", "txn2", "commit", "insA1"}

TxnKindSeqs == UNION { [1..n -> TxnKinds] : n \in 1..MaxFillOps }

\* A session runs its transactions one after the other with rising
\* txnNumbers: the entries of transaction 1 come before those of
\* transaction 2, on disk or in the batch.
ValidTxnKinds(ks, disk) ==
    /\ ValidKinds(ks, disk)
    /\ \A i \in Positions(ks, "txn1") : \A j \in Positions(ks, "txn2") : i < j
    /\ \A i \in Positions(ks, "txn1") : \A c \in Positions(ks, "commit") : i < c
    /\ disk # <<>> => Positions(ks, "txn1") = {}

InitFillTxn ==
    /\ numWriters \in 1..MaxWriters
    /\ supportsDocLocking \in BOOLEAN
    /\ txnOplog \in {<<>>, <<DiskEntry>>}
    /\ \E ks \in TxnKindSeqs :
          /\ ValidTxnKinds(ks, txnOplog)
          /\ txnOplog # <<>> => Positions(ks, "commit") # {}
          /\ batch = BatchOfKinds(ks, txnOplog)
    /\ beginApplyingOpTime \in {NullOpTime, BatchOpTime(1)}
    /\ writerVectors = [w \in 1..numWriters |-> <<>>]
    /\ derivedOps = <<>>
    /\ pcFill = "start"
    /\ pcWorker = [w \in 1..numWriters |-> "idle"]
    /\ workerPos = [w \in 1..numWriters |-> 1]
    /\ appliedLog = <<>>
    /\ DriverInMultiApply
    /\ SweepIdle
    /\ PopIdle
    /\ ErrIdle
    /\ CatalogIdle

SpecFillTxn == InitFillTxn /\ [][NextFill]_vars

(***************************************************************************)
(* Claims about the writer partitioner and the appliers.                   *)
(***************************************************************************)
\* The sub-lists are filled (and sorted or not by their writers), and no
\* operation has been applied yet.
Filled == pcFill = "waitForIdle" /\ appliedLog = <<>>

\* The positions of the writer vectors.
WriterSlots == UNION { {w} \X (1..Len(writerVectors[w])) : w \in DOMAIN writerVectors }

OpAt(slot) == writerVectors[slot[1]][slot[2]]

\* x precedes y in the batch: the entry that dispatches x has the earlier
\* optime, or they come from one entry and x is the earlier operation in it.
BatchOrderBefore(x, y) ==
    \/ x.opTime < y.opTime
    \/ x.opTime = y.opTime /\ x.o < y.o

\* All operations on ns go to one writer: the _id is not hashed in.
RoutedByNamespaceOnly(ns) == ~supportsDocLocking \/ IsCapped(ns) \/ ns = "admin.$cmd"

\* C6 as stated: any two applied operations on the same namespace were
\* applied in the order they have in the batch.
C6_SameNamespaceInBatchOrder ==
    \A i, j \in 1..Len(appliedLog) :
        (i < j /\ appliedLog[i].ns = appliedLog[j].ns)
            => BatchOrderBefore(appliedLog[i], appliedLog[j])

\* C6 amended: two applied operations on the same namespace were applied in
\* the order they have in the batch whenever the storage engine has no
\* document locking, or the collection is capped, or they have the same _id.
C6_SameDocumentInBatchOrder ==
    \A i, j \in 1..Len(appliedLog) :
        (/\ i < j
         /\ appliedLog[i].ns = appliedLog[j].ns
         /\ RoutedByNamespaceOnly(appliedLog[i].ns) \/ appliedLog[i].id = appliedLog[j].id)
            => /\ BatchOrderBefore(appliedLog[i], appliedLog[j])
               /\ appliedLog[i].worker = appliedLog[j].worker

\* Document locking, two writers: an insert and a delete of one document of
\* "a" were applied in order by one writer, an insert of another document
\* of "a" by the other writer.
C6_Witness ==
    /\ pcFill = "applied" /\ supportsDocLocking /\ numWriters = 2
    /\ \E i, j, k \in 1..Len(appliedLog) :
          /\ i < j
          /\ appliedLog[i].ns = "a" /\ appliedLog[j].ns = "a" /\ appliedLog[k].ns = "a"
          /\ appliedLog[i].id = appliedLog[j].id
          /\ appliedLog[i].opType = "i" /\ appliedLog[j].opType = "d"
          /\ appliedLog[k].worker # appliedLog[i].worker

\* C7 as stated: all dispatched operations that have the same namespace are
\* in the sub-list of the writer (hash of the namespace) mod N.
C7_NamespaceAffinity ==
    Filled =>
        \A x \in WriterSlots :
            x[1] = (NsHash(OpAt(x).ns) % numWriters) + 1

\* C7 amended: a dispatched operation is in the sub-list of the writer (hash
\* of the namespace) mod N when the storage engine has no document locking,
\* the collection is capped or the operation is a command; with document
\* locking operations on a collection that is not capped are in the same
\* sub-list when they have the same namespace and the same _id.
C7_NamespaceOrDocumentAffinity ==
    Filled =>
        /\ \A x \in WriterSlots :
              RoutedByNamespaceOnly(OpAt(x).ns)
                  => x[1] = (NsHash(OpAt(x).ns) % numWriters) + 1
        /\ \A x, y \in WriterSlots :
              (OpAt(x).ns = OpAt(y).ns /\ OpAt(x).id = OpAt(y).id) => x[1] = y[1]

\* Document locking: two operations on one document of "a" share a writer,
\* an operation on another document of "a" is with the other writer, and
\* an insert into the capped collection has been dispatched as well.
C7_Witness ==
    /\ Filled /\ supportsDocLocking /\ numWriters = 2
    /\ \E x, y, z \in WriterSlots :
          /\ x # y /\ x[1] = y[1] /\ z[1] # x[1]
          /\ OpAt(x).ns = "a" /\ OpAt(y).ns = "a" /\ OpAt(z).ns = "a"
          /\ OpAt(x).id = OpAt(y).id
    /\ \E x \in WriterSlots : OpAt(x).ns = "c"

IsCappedInsert(op) == op.opType = "i" /\ IsCapped(op.ns)

\* C8: the inserts into a capped collection are all in the sub-list of one
\* writer, each flagged isForCappedCollection; none is applied in an insert
\* group, and they are applied in the order they have in the batch.
C8_CappedInsertsInOrder ==
    /\ Filled =>
          /\ \A x \in WriterSlots : IsCappedInsert(OpAt(x)) => OpAt(x).isForCappedCollection
          /\ \A x, y \in WriterSlots :
                (IsCappedInsert(OpAt(x)) /\ IsCappedInsert(OpAt(y)) /\ OpAt(x).ns = OpAt(y).ns)
                    => x[1] = y[1]
    /\ \A i \in 1..Len(appliedLog) :
          IsCappedInsert(appliedLog[i]) => appliedLog[i].capped /\ ~appliedLog[i].grouped
    /\ \A i, j \in 1..Len(appliedLog) :
          (/\ i < j
           /\ IsCappedInsert(appliedLog[i]) /\ IsCappedInsert(appliedLog[j])
           /\ appliedLog[i].ns = appliedLog[j].ns)
              => BatchOrderBefore(appliedLog[i], appliedLog[j])

\* Document locking, two writers: three inserts into the capped collection,
\* not all of one document, have been applied.
C8_Witness ==
    /\ pcFill = "applied" /\ supportsDocLocking /\ numWriters = 2
    /\ \E i, j, k \in 1..Len(appliedLog) :
          /\ i < j /\ j < k
          /\ IsCappedInsert(appliedLog[i]) /\ IsCappedInsert(appliedLog[j])
          /\ IsCappedInsert(appliedLog[k])
          /\ appliedLog[i].id # appliedLog[j].id

\* The payloads of the operations a batch dispatches: those of its plain
\* entries, of the inner operations of its applyOps entries, of the entries
\* of a transaction (earlier in the batch or on disk) once its commit is in
\* the batch, and of the session updates; nothing for an entry at or before
\* beginApplyingOpTime.
ToApply(i) == batch[i].opTime > beginApplyingOpTime

TransactionPayloads(i) ==
    { batch[k].o : k \in { k \in 1..(i - 1) :
                              /\ batch[k].inTxn
                              /\ batch[k].session = batch[i].session
                              /\ batch[k].txnNumber = batch[i].txnNumber } }
    \cup
    { txnOplog[k].o : k \in { k \in DOMAIN txnOplog :
                                 /\ txnOplog[k].session = batch[i].session
                                 /\ txnOplog[k].txnNumber = batch[i].txnNumber } }

PayloadsOf(i) ==
    IF ~ToApply(i) \/ batch[i].inTxn THEN {}
    ELSE IF batch[i].cmd = "applyOps" THEN { batch[i].inner[j].o : j \in DOMAIN batch[i].inner }
    ELSE IF batch[i].cmd = "commitTransaction" THEN TransactionPayloads(i)
    ELSE { batch[i].o }

SessionPayloads ==
    { 200 + s : s \in { s \in Sessions :
                           \E i \in 1..Len(batch) : ToApply(i) /\ batch[i].session = s } }

DispatchedPayloads == UNION { PayloadsOf(i) : i \in 1..Len(batch) } \cup SessionPayloads

\* Every dispatched operation is in exactly one sub-list, exactly once.
IsPermutationOfBatch ==
    /\ \A x, y \in WriterSlots : x # y => OpAt(x).o # OpAt(y).o
    /\ { OpAt(x).o : x \in WriterSlots } = DispatchedPayloads

RECURSIVE ConcatWriters(_, _)
ConcatWriters(ns, w) ==
    IF w > numWriters THEN <<>>
    ELSE SelectSeq(writerVectors[w], LAMBDA e : e.ns = ns) \o ConcatWriters(ns, w + 1)

RECURSIVE ConcatNamespacesFrom(_)
ConcatNamespacesFrom(r) ==
    IF r > Len(NsOrder) THEN <<>>
    ELSE ConcatWriters(NsOrder[r], 1) \o ConcatNamespacesFrom(r + 1)

\* The sub-lists concatenated in namespace order.
ConcatInNamespaceOrder == ConcatNamespacesFrom(1)

NsRank(ns) == CHOOSE r \in 1..Len(NsOrder) : NsOrder[r] = ns

\* The dispatched operations sorted by namespace, those of one namespace in
\* the order they have in the batch.
NamespaceSortedBatch ==
    SortSeq(ConcatInNamespaceOrder,
            LAMBDA x, y : \/ NsRank(x.ns) < NsRank(y.ns)
                          \/ x.ns = y.ns /\ BatchOrderBefore(x, y))

\* C9 as stated: the sub-lists are a permutation of the dispatched
\* operations, and concatenated in namespace order they are the batch
\* stably sorted by namespace.
C9_PermutationAndSortedConcat ==
    Filled =>
        /\ IsPermutationOfBatch
        /\ ConcatInNamespaceOrder = NamespaceSortedBatch

\* C9 amended: the sub-lists are a permutation of the dispatched operations;
\* within a sub-list the operations of one namespace are in batch order; and
\* the concatenation in namespace order is the batch stably sorted by
\* namespace for the namespaces that are not split by _id (no document
\* locking, capped collection, commands).
C9_PermutationAndPerWriterOrder ==
    Filled =>
        /\ IsPermutationOfBatch
        /\ \A x, y \in WriterSlots :
              (x[1] = y[1] /\ x[2] < y[2] /\ OpAt(x).ns = OpAt(y).ns)
                  => BatchOrderBefore(OpAt(x), OpAt(y))
        /\ SelectSeq(ConcatInNamespaceOrder, LAMBDA e : RoutedByNamespaceOnly(e.ns))
             = SelectSeq(NamespaceSortedBatch, LAMBDA e : RoutedByNamespaceOnly(e.ns))

\* Document locking: a batch with an applyOps entry has been partitioned,
\* the operations on "a" are split over the writers, and the concatenation
\* of the sub-lists is not the sorted batch.
C9_Witness ==
    /\ Filled /\ supportsDocLocking
    /\ \E i \in 1..Len(batch) : batch[i].cmd = "applyOps"
    /\ \E x, y \in WriterSlots : OpAt(x).ns = "a" /\ OpAt(y).ns = "a" /\ x[1] # y[1]
    /\ \E x \in WriterSlots : OpAt(x).ns = "c"
    /\ ConcatInNamespaceOrder # NamespaceSortedBatch

\* The entries of pending transactions the partitioner can come across.
PendingEntries ==
    { batch[k] : k \in { k \in 1..Len(batch) : batch[k].inTxn } }
    \cup { txnOplog[k] : k \in DOMAIN txnOplog }

\* C10: no entry flagged inTxn is in a sub-list; the operation of such an
\* entry is dispatched only when the batch holds the unprepared commit of
\* its session after it, and then with the optime, the session id and the
\* txnNumber of that commit.
C10_PendingHeldUntilCommit ==
    Filled =>
        /\ \A x \in WriterSlots : ~OpAt(x).inTxn
        /\ \A e \in PendingEntries : \A x \in WriterSlots :
              OpAt(x).o = e.o =>
                  \E i \in 1..Len(batch) :
                      /\ IsUnpreparedCommit(batch[i])
                      /\ batch[i].session = e.session
                      /\ e.opTime < batch[i].opTime
                      /\ OpAt(x).opTime = batch[i].opTime
                      /\ OpAt(x).session = batch[i].session
                      /\ OpAt(x).txnNumber = batch[i].txnNumber

\* A transaction with an entry on disk and an entry in the batch is
\* committed by the third entry of the batch; both operations have been
\* dispatched.
C10_Witness ==
    /\ Filled /\ txnOplog # <<>> /\ Len(batch) = 3
    /\ IsUnpreparedCommit(batch[3])
    /\ \E k \in 1..2 : batch[k].inTxn /\ \E x \in WriterSlots : OpAt(x).o = batch[k].o
    /\ \E x \in WriterSlots : OpAt(x).o = txnOplog[1].o

\* The sub-list slots that hold the operation batch[i] was written with.
SlotsOf(i) == { x \in WriterSlots : OpAt(x).o = batch[i].o }

\* The optimes of the operations made for the transactions table.
SessionUpdateOpTimes ==
    { OpAt(x).opTime : x \in { y \in WriterSlots : OpAt(y).ns = "config.transactions" } }

\* batch[i] is an entry of a pending transaction that a later entry of the
\* batch commits.
CommittedLater(i) ==
    /\ batch[i].inTxn
    /\ \E c \in (i + 1)..Len(batch) :
          /\ IsUnpreparedCommit(batch[c])
          /\ batch[c].session = batch[i].session
          /\ ToApply(c)

C37_CommitDispatchesOwnTransactionOnly ==
    Filled =>
        \A i \in 1..Len(batch) :
            (batch[i].inTxn /\ SlotsOf(i) # {}) =>
                \E c \in (i + 1)..Len(batch) :
                    /\ IsUnpreparedCommit(batch[c])
                    /\ batch[c].session = batch[i].session
                    /\ batch[c].txnNumber = batch[i].txnNumber
                    /\ \A x \in SlotsOf(i) : OpAt(x).opTime = batch[c].opTime

\* The session's transaction 1 has an entry in the batch and was never
\* committed; transaction 2 follows with an entry and its commit.  The
\* operation of transaction 2 has been dispatched, that of transaction 1
\* has not.
C37_Witness ==
    /\ Filled /\ Len(batch) = 3
    /\ batch[1].inTxn /\ batch[1].txnNumber = 1 /\ ToApply(1)
    /\ batch[2].inTxn /\ batch[2].txnNumber = 2
    /\ batch[2].session = batch[1].session
    /\ IsUnpreparedCommit(batch[3]) /\ batch[3].txnNumber = 2
    /\ SlotsOf(1) = {}
    /\ SlotsOf(2) # {}

(***************************************************************************)
(* Claims about the transaction assembler.                                 *)
(***************************************************************************)
\* The operations O1..On of the transaction that batch[i] commits, oldest
\* first: its entries on disk, then its entries earlier in the batch.
TransactionEntries(i) ==
    SelectSeq(txnOplog \o SubSeq(batch, 1, i - 1),
              LAMBDA e : /\ e.inTxn
                         /\ e.session = batch[i].session
                         /\ e.txnNumber = batch[i].txnNumber)

\* The operation fields of op under the envelope of the commit entry c.
WithEnvelope(op, c) ==
    [opType |-> op.opType, ns |-> op.ns, id |-> op.id, o |-> op.o,
     opTime |-> c.opTime, session |-> c.session, txnNumber |-> c.txnNumber,
     prevOpTime |-> c.prevOpTime, inTxn |-> FALSE]

EnvelopeView(op) == WithEnvelope(op, op)

\* C11: for the commit entry C of a transaction with operations O1..On (the
\* on-disk chain, then the cached entries of the batch), the assembler
\* returns n operations, the k-th with the operation fields of Ok and the
\* optime, session and txnNumber of C.
C11_AssemblerChronological ==
    Filled =>
        \A i \in 1..Len(batch) :
            (ToApply(i) /\ IsUnpreparedCommit(batch[i])) =>
                \E d \in DOMAIN derivedOps :
                    /\ Len(derivedOps[d]) = Len(TransactionEntries(i))
                    /\ \A k \in 1..Len(derivedOps[d]) :
                          EnvelopeView(derivedOps[d][k])
                              = WithEnvelope(TransactionEntries(i)[k], batch[i])

\* A transaction of three operations, one on disk, one in the batch at
\* beginApplyingOpTime (read back from the oplog) and one cached, has been
\* assembled at its commit.
C11_Witness ==
    /\ Filled /\ txnOplog # <<>> /\ Len(batch) = 3
    /\ batch[1].inTxn /\ batch[2].inTxn /\ IsUnpreparedCommit(batch[3])
    /\ beginApplyingOpTime = batch[1].opTime
    /\ \E d \in DOMAIN derivedOps :
          /\ Len(derivedOps[d]) = 3
          /\ derivedOps[d][1].o = txnOplog[1].o
          /\ derivedOps[d][3].o = batch[2].o
          /\ derivedOps[d][3].opTime = batch[3].opTime

(***************************************************************************)
(* WiredTiger data handle sweeper                                          *)
(* (third_party/wiredtiger/src/conn/conn_sweep.c).                         *)
(*                                                                         *)
(* The sweep server walks the connection's handle list once per phase.     *)
(* The walk of __sweep_mark and of __sweep_discard_trees is one step; in   *)
(* __sweep_expire and __sweep_remove_handles the test made without the     *)
(* handle lock and the work done under it are two steps, so that sessions  *)
(* run in between.  A cursor holds its handle's rwlock for reading while   *)
(* it is open, an exclusive holder holds it for writing.                   *)
(***************************************************************************)

\* conn->sweep_interval, seconds between two sweeps.
SweepInterval == 1
\* The cursors sessions can have open on one handle.
Cursors == {"c1", "c2"}
\* The handles sessions work with; the others stay idle once opened.
UsedHandles == {1}

\* Oplog application is not running while the sweeper is looked at.
ApplierStopped ==
    /\ FillIdle
    /\ PopIdle
    /\ ErrIdle
    /\ memberState = "RECOVERING"
    /\ maintenanceMode = FALSE
    /\ myLastAppliedOpTime = NullOpTime
    /\ myLastDurableOpTime = NullOpTime
    /\ minValidDoc = NullOpTime
    /\ appliedThrough = NullOpTime
    /\ oplogTruncateAfterPoint = NullOpTime
    /\ oplogRs = {}
    /\ oplogVisible = NullOpTime
    /\ isDurable = FALSE
    /\ skipWritesToOplog = FALSE
    /\ opsSlot = EmptyQueue
    /\ batcherDead = FALSE
    /\ pcDriver = "done"
    /\ minValid = NullOpTime
    /\ ops = <<>>
    /\ lastAppliedOpTimeAtStartOfBatch = NullOpTime
    /\ latestOpTime = NullOpTime
    /\ shutdownSignaled = FALSE
    /\ pcWaiter = "none"
    /\ waiterLatest = NullOpTime

\* What the sweep server and the sessions leave alone.
nonSweepVars == <<driverSide, fillVars, popVars, errVars, catalogVars>>

connVars == <<sweep_handles_min, sweep_idle_time>>

WT_DHANDLE_CAN_DISCARD(d) ==
    /\ ~d.exclusive
    /\ ~d.open
    /\ d.session_inuse = 0
    /\ d.session_ref = 0

\* __wt_try_writelock on the handle's rwlock: fails while a writer or a reader
\* (an open cursor) holds it.
TryWriteLock(d) == ~d.writeLocked /\ d.session_inuse = 0

\* The tree cannot be closed: it is dirty, or its newest reconciled update is
\* not visible to every transaction.
TreeBusy(d) == d.modified \/ ~d.visibleAll

\* The metadata handle is marked like any other.
sweep_mark_handle_any(d, isMetadata, t) ==
    LET d1 == IF d.session_inuse > 1 THEN [d EXCEPT !.timeofdeath = 0] ELSE d
    IN  IF ~d.listed THEN d
        ELSE IF d1.exclusive \/ d1.session_inuse > 0 \/ d1.timeofdeath # 0 THEN d1
        ELSE [d1 EXCEPT !.timeofdeath = t]

\* The body of the loop of __sweep_mark for one handle of the list at time t.
sweep_mark_handle(d, isMetadata, t) ==
    LET d1 == IF d.session_inuse > 1 THEN [d EXCEPT !.timeofdeath = 0] ELSE d
    IN  IF isMetadata \/ ~d.listed THEN d
        ELSE IF d1.exclusive \/ d1.session_inuse > 0 \/ d1.timeofdeath # 0 THEN d1
        ELSE [d1 EXCEPT !.timeofdeath = t]

\* __sweep_mark over the data handles of the list at time t.
sweep_mark(dh, t) == [h \in Handles |-> sweep_mark_handle(dh[h], FALSE, t)]

\* What closing or discarding a handle returns: 0, EBUSY or another error.
CloseResults == {"0", "EBUSY", "WT_ERROR"}

\* Every error is passed over.
WT_RET_BUSY_OK_any(ret) == TRUE

\* WT_RET_BUSY_OK: TRUE when the loop goes on, FALSE when the function returns
\* the error, which sends __sweep_server to its err label.
WT_RET_BUSY_OK(ret) == ret \in {"0", "EBUSY"}

\* The clock of __wt_seconds.
ClockAdvance ==
    /\ clock < MaxClock
    /\ clock' = clock + 1
    /\ UNCHANGED <<dhandles, open_btree_count, connVars, lastSweep, now, pcSweep,
                   sweepCursor, dead_handles, expireFrom, sweepRet, metadata>>
    /\ UNCHANGED nonSweepVars

\* __sweep_server wakes up, the sweep is due: __sweep_mark, then the choice
\* between __sweep_expire and __sweep_discard_trees.
SweepWake ==
    /\ pcSweep = "wait"
    /\ clock - lastSweep >= SweepInterval
    /\ now' = clock
    /\ dhandles' = IF sweep_idle_time # 0 THEN sweep_mark(dhandles, clock) ELSE dhandles
    /\ metadata' = IF sweep_idle_time # 0
                   THEN sweep_mark_handle(metadata, TRUE, clock) ELSE metadata
    /\ sweepRet' = NoRet
    /\ IF sweep_idle_time # 0 /\ open_btree_count >= sweep_handles_min
       THEN pcSweep' = "expire" /\ expireFrom' = open_btree_count
       ELSE pcSweep' = "discard" /\ expireFrom' = -1
    /\ sweepCursor' = 1
    /\ UNCHANGED <<open_btree_count, connVars, clock, lastSweep, dead_handles>>
    /\ UNCHANGED nonSweepVars

\* __sweep_expire: the head of the loop for the handle at sweepCursor.
sweep_expire ==
    /\ pcSweep = "expire"
    /\ IF sweepCursor > MaxHandles \/ open_btree_count < sweep_handles_min
       THEN pcSweep' = "discard" /\ sweepCursor' = 1
       ELSE LET d == dhandles[sweepCursor]
            IN  IF \/ ~d.listed
                   \/ ~d.open
                   \/ d.session_inuse # 0
                   \/ d.timeofdeath = 0
                   \/ now - d.timeofdeath <= sweep_idle_time
                THEN sweepCursor' = sweepCursor + 1 /\ UNCHANGED pcSweep
                ELSE pcSweep' = "expireOne" /\ UNCHANGED sweepCursor
    /\ UNCHANGED <<dhandles, open_btree_count, connVars, clock, lastSweep, now,
                   dead_handles, expireFrom, sweepRet, metadata>>
    /\ UNCHANGED nonSweepVars

\* __sweep_expire_one that closes the handle whoever holds its lock.
sweep_expire_one_unlocked ==
    /\ pcSweep = "expireOne"
    /\ \E closeRet \in CloseResults :
          LET d == dhandles[sweepCursor]
              ret == IF TreeBusy(d) THEN "0" ELSE closeRet
          IN  /\ IF ~TreeBusy(d) /\ closeRet = "0"
                 THEN /\ dhandles' = [dhandles EXCEPT ![sweepCursor].dead = TRUE]
                      /\ open_btree_count' = open_btree_count - 1
                 ELSE UNCHANGED <<dhandles, open_btree_count>>
              /\ sweepRet' = [sweepRet EXCEPT ![sweepCursor] = ret]
              /\ IF WT_RET_BUSY_OK(ret)
                 THEN pcSweep' = "expire" /\ sweepCursor' = sweepCursor + 1
                 ELSE pcSweep' = "panic" /\ UNCHANGED sweepCursor
    /\ UNCHANGED <<connVars, clock, lastSweep, now, dead_handles, expireFrom, metadata>>
    /\ UNCHANGED nonSweepVars

\* __sweep_expire_one and what __sweep_expire does with its result: under the
\* handle's write lock, mark the handle dead and close its tree, which takes
\* one off the count of open trees.  A lock that is taken is released before
\* the function returns.
sweep_expire_one ==
    /\ pcSweep = "expireOne"
    /\ \E closeRet \in CloseResults :
          LET d == dhandles[sweepCursor]
              ret == IF ~TryWriteLock(d) THEN "EBUSY"
                     ELSE IF TreeBusy(d) THEN "0"
                     ELSE closeRet
          IN  /\ IF TryWriteLock(d) /\ ~TreeBusy(d) /\ closeRet = "0"
                 THEN /\ dhandles' = [dhandles EXCEPT ![sweepCursor].dead = TRUE]
                      /\ open_btree_count' = open_btree_count - 1
                 ELSE UNCHANGED <<dhandles, open_btree_count>>
              /\ sweepRet' = [sweepRet EXCEPT ![sweepCursor] = ret]
              /\ IF WT_RET_BUSY_OK(ret)
                 THEN pcSweep' = "expire" /\ sweepCursor' = sweepCursor + 1
                 ELSE pcSweep' = "panic" /\ UNCHANGED sweepCursor
    /\ UNCHANGED <<connVars, clock, lastSweep, now, dead_handles, expireFrom, metadata>>
    /\ UNCHANGED nonSweepVars

\* __sweep_discard_trees, and what __sweep_server does with its count.  The
\* loop runs in list order and stops at the first close that returns an error
\* other than EBUSY.
sweep_discard_trees ==
    /\ pcSweep = "discard"
    /\ LET closing == {h \in Handles : dhandles[h].listed /\ dhandles[h].open /\ dhandles[h].dead}
       IN  \E closeRet \in [closing -> CloseResults] :
              LET failed == {h \in closing : ~WT_RET_BUSY_OK(closeRet[h])}
                  reached == {h \in Handles : \A f \in failed : h <= f}
                  counted == {h \in reached :
                                 dhandles[h].listed /\ WT_DHANDLE_CAN_DISCARD(dhandles[h])}
                  closed == {h \in closing \cap reached : closeRet[h] = "0"}
                  n == Cardinality(counted) + Cardinality(closed)
              IN  /\ dhandles' = [h \in Handles |->
                                     IF h \in closed THEN [dhandles[h] EXCEPT !.open = FALSE]
                                     ELSE dhandles[h]]
                  /\ sweepRet' = [h \in Handles |->
                                     IF h \in closing \cap reached THEN closeRet[h]
                                     ELSE sweepRet[h]]
                  /\ dead_handles' = n
                  /\ IF failed # {}
                     THEN pcSweep' = "panic" /\ UNCHANGED lastSweep
                     ELSE IF n > 0
                     THEN pcSweep' = "remove" /\ UNCHANGED lastSweep
                     ELSE pcSweep' = "wait" /\ lastSweep' = now
    /\ sweepCursor' = 1
    /\ UNCHANGED <<open_btree_count, connVars, clock, now, expireFrom, metadata>>
    /\ UNCHANGED nonSweepVars

\* __sweep_remove_handles: the head of the loop for the handle at sweepCursor.
sweep_remove_handles ==
    /\ pcSweep = "remove"
    /\ IF sweepCursor > MaxHandles
       THEN pcSweep' = "wait" /\ lastSweep' = now /\ sweepCursor' = 1
       ELSE /\ UNCHANGED lastSweep
            /\ IF ~dhandles[sweepCursor].listed \/ ~WT_DHANDLE_CAN_DISCARD(dhandles[sweepCursor])
               THEN sweepCursor' = sweepCursor + 1 /\ UNCHANGED pcSweep
               ELSE pcSweep' = "removeOne" /\ UNCHANGED sweepCursor
    /\ UNCHANGED <<dhandles, open_btree_count, connVars, clock, now, dead_handles, expireFrom,
                   sweepRet, metadata>>
    /\ UNCHANGED nonSweepVars

\* Mutant: __sweep_remove_one trusts the test __sweep_remove_handles made
\* before the locks were taken.
sweep_remove_one_unchecked ==
    /\ pcSweep = "removeOne"
    /\ \E discardRet \in CloseResults :
          LET d == dhandles[sweepCursor]
              ret == IF ~TryWriteLock(d) THEN "EBUSY" ELSE discardRet
          IN  /\ IF ret = "0"
                 THEN dhandles' = [dhandles EXCEPT ![sweepCursor].listed = FALSE]
                 ELSE UNCHANGED dhandles
              /\ sweepRet' = [sweepRet EXCEPT ![sweepCursor] = ret]
              /\ IF WT_RET_BUSY_OK(ret)
                 THEN pcSweep' = "remove" /\ sweepCursor' = sweepCursor + 1
                 ELSE pcSweep' = "panic" /\ UNCHANGED sweepCursor
    /\ UNCHANGED <<open_btree_count, connVars, clock, lastSweep, now, dead_handles, expireFrom,
                   metadata>>
    /\ UNCHANGED nonSweepVars

\* __sweep_remove_one and what __sweep_remove_handles does with its result:
\* under the handle list lock and the handle's write lock, unlink the handle if
\* it still can be discarded.  When the handle stays, its lock is released.
sweep_remove_one ==
    /\ pcSweep = "removeOne"
    /\ \E discardRet \in CloseResults :
          LET d == dhandles[sweepCursor]
              ret == IF ~TryWriteLock(d) \/ ~WT_DHANDLE_CAN_DISCARD(d) THEN "EBUSY"
                     ELSE discardRet
          IN  /\ IF ret = "0"
                 THEN dhandles' = [dhandles EXCEPT ![sweepCursor].listed = FALSE]
                 ELSE UNCHANGED dhandles
              /\ sweepRet' = [sweepRet EXCEPT ![sweepCursor] = ret]
              /\ IF WT_RET_BUSY_OK(ret)
                 THEN pcSweep' = "remove" /\ sweepCursor' = sweepCursor + 1
                 ELSE pcSweep' = "panic" /\ UNCHANGED sweepCursor
    /\ UNCHANGED <<open_btree_count, connVars, clock, lastSweep, now, dead_handles, expireFrom,
                   metadata>>
    /\ UNCHANGED nonSweepVars

\* ---- sessions ----
sessionFrame ==
    /\ UNCHANGED <<open_btree_count, connVars, clock, lastSweep, now, pcSweep,
                   sweepCursor, dead_handles, expireFrom, sweepRet, metadata>>
    /\ UNCHANGED nonSweepVars

\* A session finds the handle on the list and caches a reference to it.
SessionGetHandle(h) ==
    /\ dhandles[h].listed /\ ~dhandles[h].dead
    /\ dhandles[h].session_ref = 0
    /\ dhandles[h].session_inuse = 0
    /\ dhandles' = [dhandles EXCEPT ![h].session_ref = 1]
    /\ sessionFrame

\* The session drops its cached reference.
SessionReleaseHandle(h) ==
    /\ dhandles[h].session_ref = 1
    /\ dhandles[h].session_inuse = 0
    /\ ~dhandles[h].exclusive
    /\ dhandles' = [dhandles EXCEPT ![h].session_ref = 0]
    /\ sessionFrame

\* A cursor is opened: the handle is read-locked and counted in use.
SessionCursorOpen(h) ==
    /\ dhandles[h].listed /\ dhandles[h].open /\ ~dhandles[h].dead
    /\ dhandles[h].session_ref = 1
    /\ ~dhandles[h].writeLocked
    /\ dhandles[h].session_inuse < Cardinality(Cursors)
    /\ dhandles' = [dhandles EXCEPT ![h].session_inuse = @ + 1]
    /\ sessionFrame

\* A cursor is closed; the last one out clears the time of death.
SessionCursorClose(h) ==
    /\ dhandles[h].session_inuse > 0
    /\ dhandles' = [dhandles EXCEPT ![h].session_inuse = @ - 1,
                                     ![h].timeofdeath =
                                         IF dhandles[h].session_inuse = 1 THEN 0 ELSE @]
    /\ sessionFrame

\* An update through an open cursor.
SessionModify(h) ==
    /\ dhandles[h].session_inuse > 0
    /\ ~dhandles[h].modified \/ dhandles[h].visibleAll
    /\ dhandles' = [dhandles EXCEPT ![h].modified = TRUE, ![h].visibleAll = FALSE]
    /\ sessionFrame

\* A checkpoint writes the tree.
Checkpoint(h) ==
    /\ dhandles[h].listed /\ dhandles[h].open /\ ~dhandles[h].dead
    /\ ~dhandles[h].writeLocked
    /\ dhandles[h].modified
    /\ dhandles' = [dhandles EXCEPT ![h].modified = FALSE]
    /\ sessionFrame

\* The oldest transaction id moves past the updates of the tree.
OldestAdvance(h) ==
    /\ dhandles[h].listed /\ ~dhandles[h].visibleAll
    /\ dhandles' = [dhandles EXCEPT ![h].visibleAll = TRUE]
    /\ sessionFrame

\* A session takes the handle exclusively (verify, salvage, drop).
SessionLockExclusive(h) ==
    /\ dhandles[h].listed /\ dhandles[h].open /\ ~dhandles[h].dead
    /\ dhandles[h].session_ref = 1
    /\ TryWriteLock(dhandles[h])
    /\ dhandles' = [dhandles EXCEPT ![h].writeLocked = TRUE, ![h].exclusive = TRUE]
    /\ sessionFrame

SessionUnlockExclusive(h) ==
    /\ dhandles[h].exclusive
    /\ dhandles' = [dhandles EXCEPT ![h].writeLocked = FALSE, ![h].exclusive = FALSE]
    /\ sessionFrame

\* The connection is open with all its handles fresh.
InitSweep ==
    /\ ApplierStopped
    /\ CatalogIdle
    /\ dhandles = [h \in Handles |-> FreshHandle]
    /\ open_btree_count = MaxHandles
    /\ sweep_handles_min \in 0..MaxHandles
    /\ sweep_idle_time \in {0, 1}
    /\ clock = 0
    /\ lastSweep = 0
    /\ now = 0
    /\ pcSweep = "wait"
    /\ sweepCursor = 1
    /\ dead_handles = 0
    /\ expireFrom = -1
    /\ sweepRet = NoRet
    /\ metadata = FreshHandle

SweeperStep ==
    \/ SweepWake
    \/ sweep_expire
    \/ sweep_expire_one
    \/ sweep_discard_trees
    \/ sweep_remove_handles
    \/ sweep_remove_one

NextSweep ==
    \/ ClockAdvance
    \/ SweeperStep
    \/ \E h \in UsedHandles : SessionGetHandle(h)
    \/ \E h \in UsedHandles : SessionReleaseHandle(h)
    \/ \E h \in UsedHandles : SessionCursorOpen(h)
    \/ \E h \in UsedHandles : SessionCursorClose(h)
    \/ \E h \in UsedHandles : SessionModify(h)
    \/ \E h \in UsedHandles : Checkpoint(h)
    \/ \E h \in UsedHandles : OldestAdvance(h)
    \/ \E h \in UsedHandles : SessionLockExclusive(h)
    \/ \E h \in UsedHandles : SessionUnlockExclusive(h)

SpecSweep == InitSweep /\ [][NextSweep]_vars

\* A handle on the list whose tree is not open and that is not dead: a
\* session has closed it, or has yet to open it.
ClosedHandle == [FreshHandle EXCEPT !.open = FALSE]

\* The same connection when the handle the sessions work with may be on the
\* list closed.
InitRemove ==
    /\ ApplierStopped
    /\ CatalogIdle
    /\ \E d \in {FreshHandle, ClosedHandle} :
          /\ dhandles = [h \in Handles |-> IF h \in UsedHandles THEN d ELSE FreshHandle]
          /\ open_btree_count = Cardinality({h \in Handles : h \notin UsedHandles \/ d.open})
    /\ sweep_handles_min \in 0..MaxHandles
    /\ sweep_idle_time \in {0, 1}
    /\ clock = 0
    /\ lastSweep = 0
    /\ now = 0
    /\ pcSweep = "wait"
    /\ sweepCursor = 1
    /\ dead_handles = 0
    /\ expireFrom = -1
    /\ sweepRet = NoRet
    /\ metadata = FreshHandle

SpecRemove == InitRemove /\ [][NextSweep]_vars

\* The sweep server on its own: every handle is open and in the state some
\* session left it in, and no session runs during the sweeps.
HandleStates ==
    {d \in [listed : {TRUE}, open : {TRUE}, exclusive : BOOLEAN, dead : {FALSE},
            session_inuse : 0..Cardinality(Cursors), session_ref : {0, 1},
            timeofdeath : {0}, modified : BOOLEAN, visibleAll : BOOLEAN,
            writeLocked : BOOLEAN] :
        /\ d.writeLocked = d.exclusive
        /\ d.exclusive => d.session_inuse = 0
        /\ d.session_ref = (IF d.session_inuse > 0 \/ d.exclusive THEN 1 ELSE 0)}

InitTick ==
    /\ ApplierStopped
    /\ CatalogIdle
    /\ dhandles \in [Handles -> HandleStates]
    /\ open_btree_count = MaxHandles
    /\ sweep_handles_min \in 0..MaxHandles
    /\ sweep_idle_time \in {0, 1}
    /\ clock = 0
    /\ lastSweep = 0
    /\ now = 0
    /\ pcSweep = "wait"
    /\ sweepCursor = 1
    /\ dead_handles = 0
    /\ expireFrom = -1
    /\ sweepRet = NoRet
    /\ metadata = FreshHandle

NextTick == ClockAdvance \/ SweeperStep

SpecTick == InitTick /\ [][NextTick]_vars

\* ---- claims about the sweeper ----

\* The step closes handle h (expire marks it dead, discard closes a dead tree)
\* or unlinks it from the connection's list.
ClosesOrUnlinks(h) ==
    \/ ~dhandles[h].dead /\ dhandles'[h].dead
    \/ dhandles[h].open /\ ~dhandles'[h].open
    \/ dhandles[h].listed /\ ~dhandles'[h].listed

Closable(d) == d.session_inuse = 0 /\ ~d.writeLocked /\ ~d.modified /\ d.visibleAll

\* __sweep_expire has just run over handles that were all open, idle for
\* longer than sweep_idle_time and closable, more of them than
\* sweep_handles_min.
ExpiredAllIdle ==
    /\ pcSweep = "discard"
    /\ expireFrom > sweep_handles_min
    /\ expireFrom = MaxHandles
    /\ \A h \in Handles :
          /\ sweepRet[h] = "0"
          /\ dhandles[h].listed /\ dhandles[h].open
          /\ Closable(dhandles[h])
          /\ dhandles[h].timeofdeath # 0
          /\ now - dhandles[h].timeofdeath > sweep_idle_time

\* C13: from more than sweep_handles_min open handles, all idle and closable,
\* the expire phase closes exactly the excess and leaves sweep_handles_min
\* handles open, never fewer; and it never closes a handle that is in use.
C13_ExpireStopsAtMinimum ==
    /\ ExpiredAllIdle =>
          /\ expireFrom - open_btree_count = expireFrom - sweep_handles_min
          /\ open_btree_count >= sweep_handles_min
    /\ \A h \in Handles : dhandles[h].dead => dhandles[h].session_inuse = 0

\* ---- claims about durability across batches ----

\* The driver holds a batch it has started to apply.
BatchInProgress ==
    /\ pcDriver \in {"multiApply", "writes", "apply", "setAppliedThrough", "register", "record"}
    /\ ops # <<>>

\* The operations of the batch the driver holds have been applied.
BatchApplied == pcDriver \in {"setAppliedThrough", "register", "record", "recordLatest"}

\* The batch applied before the one the driver holds was applied in this run
\* of _oplogApplication: its last optime was written to the oplog.
PreviousBatchInThisRun == lastAppliedOpTimeAtStartOfBatch \in oplogRs

\* C14 as stated: with a journaling storage engine, once the operations of a
\* batch have been applied the batch before it is durable, lastDurable having
\* reached its last optime.
C14_PreviousBatchDurableBeforeNext ==
    (isDurable /\ BatchApplied /\ PreviousBatchInThisRun) =>
        myLastDurableOpTime >= lastAppliedOpTimeAtStartOfBatch

\* C14, amended: while a batch is being applied, every entry of the earlier
\* batches of this run is recorded as applied and visible in the oplog, and
\* lastDurable is behind lastApplied; it follows whenever the waiter thread
\* has flushed the journal.
C14_PreviousBatchAppliedBeforeNext ==
    BatchInProgress =>
        /\ \A o \in oplogRs :
              o < Head(ops) => (o <= myLastAppliedOpTime /\ o <= oplogVisible)
        /\ myLastDurableOpTime <= myLastAppliedOpTime

\* A batch has been applied while the one before it is not yet durable.
C14_Witness ==
    /\ isDurable
    /\ BatchApplied
    /\ PreviousBatchInThisRun
    /\ oplogVisible = lastAppliedOpTimeAtStartOfBatch
    /\ myLastDurableOpTime < lastAppliedOpTimeAtStartOfBatch

(***************************************************************************)
(* OpQueueBatcher::run and SyncTail::tryPopAndWaitForMore, with the oplog  *)
(* buffer they read and the loop of _oplogApplication that takes the       *)
(* batches.  What the driver does with a batch is left out here: it holds  *)
(* the batch in 'ops' while applying it.  The fail point rsSyncApplyStop   *)
(* is off.                                                                 *)
(***************************************************************************)

\* Largest number of entries the oplog buffer starts with.
MaxBufferOps == 3
\* batchLimits.bytes, as OplogApplier::calculateBatchLimitBytes returns it.
BatchLimitBytes == 2
\* The terms of the replica set.
Terms == {1, 2}

PopKinds == {"crud", "big", "create", "applyOps", "prepare", "commit", "views", "version"}
\* The kinds of entries fetched while a slave delay is configured.
DelayedKinds == {"crud", "create"}

\* The oplog entry of a kind, fetched with timestamp ts (in seconds).
PopEntry(kind, ts) ==
    [ts |-> ts,
     objsize |-> IF kind = "big" THEN 3 ELSE 1,
     opType |-> CASE kind \in {"crud", "big", "views"} -> "i"
                  [] kind = "version" -> "u"
                  [] OTHER -> "c",
     cmd |-> CASE kind = "create" -> "create"
               [] kind \in {"applyOps", "prepare"} -> "applyOps"
               [] kind = "commit" -> "commitTransaction"
               [] OTHER -> "none",
     prepared |-> (kind = "prepare"),
     ns |-> CASE kind = "views" -> "a.system.views"
              [] kind = "version" -> "admin.system.version"
              [] kind \in {"crud", "big"} -> "a.b"
              [] OTHER -> "a.$cmd"]

\* The buffers the producer can have filled with entries of the given kinds:
\* entry i carries timestamp i.
BuffersOf(kinds) ==
    UNION { { [i \in 1..n |-> PopEntry(ks[i], i)] : ks \in [1..n -> kinds] } :
            n \in 0..MaxBufferOps }

IsCommand(entry) == entry.opType = "c"
IsSystemDotViews(ns) == ns = "a.system.views"
IsServerConfigurationCollection(ns) == ns = "admin.system.version"

RECURSIVE SumBytes(_)
SumBytes(entries) ==
    IF entries = <<>> THEN 0 ELSE Head(entries).objsize + SumBytes(Tail(entries))

\* OpQueue::getBytes
GetBytes(q) == SumBytes(q.ops)

\* The byte limit is never hit.
OverByteLimitNever(q, op, limits) == FALSE

\* "If this op would put us over the byte limit don't include it unless the
\* batch is empty."
OverByteLimit(q, op, limits) == q.ops # <<>> /\ GetBytes(q) + op.objsize > limits.bytes

\* The slave delay is not looked at.
NotYetAllowedIgnored(entry, limits) == FALSE

\* limits.slaveDelayLatestTimestamp && entryTime > *limits.slaveDelayLatestTimestamp
NotYetAllowed(entry, limits) ==
    /\ limits.slaveDelayLatestTimestamp.enabled
    /\ entry.ts > limits.slaveDelayLatestTimestamp.at

\* Only commands are kept apart.
MustBeAloneCommandsOnly(entry) ==
    IsCommand(entry) /\ ~IsUnpreparedCommit(entry) /\ ~IsUnpreparedApplyOps(entry)

\* "Commands must be processed one at a time", but for unprepared applyOps and
\* unprepared commitTransaction; so must entries on system.views and on
\* admin.system.version.
MustBeAlone(entry) ==
    \/ IsCommand(entry) /\ ~IsUnpreparedCommit(entry) /\ ~IsUnpreparedApplyOps(entry)
    \/ IsSystemDotViews(entry.ns)
    \/ IsServerConfigurationCollection(entry.ns)

\* Mutant: the entry that ends the batch is taken out of the buffer although
\* it is not put in the batch.
tryPopAndWaitForMoreConsuming(buffer, q, limits, shutdown) ==
    IF buffer = <<>>
    THEN [q |-> IF q.ops = <<>> /\ shutdown THEN [q EXCEPT !.mustShutdown = TRUE] ELSE q,
          buffer |-> buffer, result |-> TRUE]
    ELSE LET op == Head(buffer)
             pushed == [q EXCEPT !.ops = Append(q.ops, op)]
         IN  IF OverByteLimit(q, op, limits)
             THEN [q |-> q, buffer |-> buffer, result |-> TRUE]
             ELSE IF NotYetAllowed(op, limits)
             THEN [q |-> q, buffer |-> buffer, result |-> TRUE]
             ELSE IF MustBeAlone(op)
             THEN IF Len(pushed.ops) = 1
                  THEN [q |-> pushed, buffer |-> Tail(buffer), result |-> TRUE]
                  ELSE [q |-> q, buffer |-> Tail(buffer), result |-> TRUE]
             ELSE [q |-> pushed, buffer |-> Tail(buffer),
                   result |-> Len(pushed.ops) >= limits.ops]

\* One call of tryPopAndWaitForMore: the queue and the buffer after it, and
\* the value returned (true ends the batch).
tryPopAndWaitForMore(buffer, q, limits, shutdown) ==
    IF buffer = <<>>
    THEN [q |-> IF q.ops = <<>> /\ shutdown THEN [q EXCEPT !.mustShutdown = TRUE] ELSE q,
          buffer |-> buffer, result |-> TRUE]
    ELSE LET op == Head(buffer)
             pushed == [q EXCEPT !.ops = Append(q.ops, op)]
         IN  IF OverByteLimit(q, op, limits)
             THEN [q |-> q, buffer |-> buffer, result |-> TRUE]
             ELSE IF NotYetAllowed(op, limits)
             THEN [q |-> q, buffer |-> buffer, result |-> TRUE]
             ELSE IF MustBeAlone(op)
             THEN IF Len(pushed.ops) = 1
                  THEN [q |-> pushed, buffer |-> Tail(buffer), result |-> TRUE]
                  ELSE [q |-> q, buffer |-> buffer, result |-> TRUE]
             ELSE [q |-> pushed, buffer |-> Tail(buffer),
                   result |-> Len(pushed.ops) >= limits.ops]

\* _calculateSlaveDelayLatestTimestamp
CalculateSlaveDelayLatestTimestamp(slaveDelay, clockNow) ==
    IF slaveDelay <= 0 THEN NoDelayLimit
    ELSE [enabled |-> TRUE, at |-> clockNow - slaveDelay]

\* Every queue is handed over, the empty ones too.
EmitsBatchAlways(q) == TRUE

\* The queue carrying mustShutdown is not handed over either.
EmitsBatchNonEmpty(q) == q.ops # <<>>

\* "Don't emit empty batches."
EmitsBatch(q) == ~(q.ops = <<>> /\ ~q.mustShutdown)

\* What the batcher, the buffer and the loop of the driver leave alone.
popFrame ==
    /\ UNCHANGED <<coordVars, markerVars, optionVars, finalizerVars, minValid,
                   lastAppliedOpTimeAtStartOfBatch>>
    /\ UNCHANGED <<fillVars, sweepVars, errVars, catalogVars>>

popEnv == <<slaveDelaySecs, wallClock, inShutdown, currentTerm>>

\* run(): the head of the loop.
BatcherRunLimits ==
    /\ pcBatcher = "limits"
    /\ batchLimits' = [ops |-> MaxBatchOps, bytes |-> BatchLimitBytes,
                       slaveDelayLatestTimestamp |->
                           CalculateSlaveDelayLatestTimestamp(slaveDelaySecs, wallClock)]
    /\ batcherOps' = EmptyOpQueue
    /\ pcBatcher' = "pop"
    /\ UNCHANGED <<oplogBuffer, popEnv, termWhenBufferIsEmpty,
                   opsSlot, batcherDead, pcDriver, ops>>
    /\ popFrame

\* run(): one call of tryPopAndWaitForMore in the inner loop, and, when it
\* returns true, the choice between handing the queue over and starting again.
BatcherRunPop ==
    /\ pcBatcher = "pop"
    /\ LET r == tryPopAndWaitForMore(oplogBuffer, batcherOps, batchLimits, inShutdown)
       IN  /\ oplogBuffer' = r.buffer
           /\ batcherOps' = r.q
           /\ pcBatcher' = IF ~r.result THEN "pop"
                           ELSE IF EmitsBatch(r.q) THEN "publish" ELSE "limits"
    /\ UNCHANGED <<batchLimits, popEnv, termWhenBufferIsEmpty,
                   opsSlot, batcherDead, pcDriver, ops>>
    /\ popFrame

\* The queue is put into the slot whatever the slot holds.
BatcherRunPublishWithoutWaiting ==
    /\ pcBatcher = "publish"
    /\ opsSlot' = batcherOps
    /\ batcherOps' = EmptyOpQueue
    /\ batcherDead' = batcherOps.mustShutdown
    /\ pcBatcher' = IF batcherOps.mustShutdown THEN "dead" ELSE "limits"
    /\ UNCHANGED <<oplogBuffer, batchLimits, popEnv, termWhenBufferIsEmpty, pcDriver, ops>>
    /\ popFrame

\* run(): "Block until the previous batch has been taken", then publish.
BatcherRunPublish ==
    /\ pcBatcher = "publish"
    /\ opsSlot.ops = <<>>
    /\ opsSlot' = batcherOps
    /\ batcherOps' = EmptyOpQueue
    /\ batcherDead' = batcherOps.mustShutdown
    /\ pcBatcher' = IF batcherOps.mustShutdown THEN "dead" ELSE "limits"
    /\ UNCHANGED <<oplogBuffer, batchLimits, popEnv, termWhenBufferIsEmpty, pcDriver, ops>>
    /\ popFrame

\* _oplogApplication: the head of the loop, up to the read of the term.
ApplierLoopTop ==
    /\ pcDriver = "top"
    /\ termWhenBufferIsEmpty' = currentTerm
    /\ pcDriver' = "getBatch"
    /\ UNCHANGED <<oplogBuffer, batcherOps, batchLimits, pcBatcher, popEnv, opsSlot, batcherDead, ops>>
    /\ popFrame

\* batcher->getNextBatch(Seconds(1)): returns what the slot holds when it is
\* signalled or when the second is over.
GetNextBatch ==
    /\ pcDriver = "getBatch"
    /\ ops' = opsSlot.ops
    /\ opsSlot' = EmptyOpQueue
    /\ pcDriver' = IF opsSlot.ops = <<>>
                   THEN (IF opsSlot.mustShutdown THEN "done" ELSE "signal")
                   ELSE "apply"
    /\ UNCHANGED <<oplogBuffer, batcherOps, batchLimits, pcBatcher, popEnv,
                   termWhenBufferIsEmpty, batcherDead>>
    /\ popFrame

\* replCoord->signalDrainComplete(&opCtx, termWhenBufferIsEmpty)
SignalDrainComplete ==
    /\ pcDriver = "signal"
    /\ pcDriver' = "top"
    /\ UNCHANGED <<oplogBuffer, batcherOps, batchLimits, pcBatcher, popEnv,
                   termWhenBufferIsEmpty, opsSlot, batcherDead, ops>>
    /\ popFrame

\* The batch is applied and finalized.
ApplierApplyBatch ==
    /\ pcDriver = "apply"
    /\ ops' = <<>>
    /\ pcDriver' = "top"
    /\ UNCHANGED <<oplogBuffer, batcherOps, batchLimits, pcBatcher, popEnv,
                   termWhenBufferIsEmpty, opsSlot, batcherDead>>
    /\ popFrame

\* ---- environment ----
RequestShutdown ==
    /\ ~inShutdown
    /\ inShutdown' = TRUE
    /\ UNCHANGED <<oplogBuffer, batcherOps, batchLimits, pcBatcher, slaveDelaySecs,
                   wallClock, currentTerm, termWhenBufferIsEmpty,
                   opsSlot, batcherDead, pcDriver, ops>>
    /\ popFrame

\* The clock is read by _calculateSlaveDelayLatestTimestamp only, and only
\* with a slave delay configured.
WallClockTick ==
    /\ slaveDelaySecs > 0
    /\ wallClock < MaxClock
    /\ wallClock' = wallClock + 1
    /\ UNCHANGED <<oplogBuffer, batcherOps, batchLimits, pcBatcher, slaveDelaySecs,
                   inShutdown, currentTerm, termWhenBufferIsEmpty,
                   opsSlot, batcherDead, pcDriver, ops>>
    /\ popFrame

TermChange ==
    /\ currentTerm + 1 \in Terms
    /\ currentTerm' = currentTerm + 1
    /\ UNCHANGED <<oplogBuffer, batcherOps, batchLimits, pcBatcher, slaveDelaySecs,
                   wallClock, inShutdown, termWhenBufferIsEmpty,
                   opsSlot, batcherDead, pcDriver, ops>>
    /\ popFrame

InitPop ==
    /\ FillIdle
    /\ SweepIdle
    /\ ErrIdle
    /\ CatalogIdle
    /\ memberState = "RECOVERING"
    /\ maintenanceMode = FALSE
    /\ myLastAppliedOpTime = NullOpTime
    /\ myLastDurableOpTime = NullOpTime
    /\ minValidDoc = NullOpTime
    /\ appliedThrough = NullOpTime
    /\ oplogTruncateAfterPoint = NullOpTime
    /\ oplogRs = {}
    /\ oplogVisible = NullOpTime
    /\ isDurable = FALSE
    /\ skipWritesToOplog = FALSE
    /\ minValid = NullOpTime
    /\ lastAppliedOpTimeAtStartOfBatch = NullOpTime
    /\ latestOpTime = NullOpTime
    /\ shutdownSignaled = FALSE
    /\ pcWaiter = "none"
    /\ waiterLatest = NullOpTime
    /\ opsSlot = EmptyOpQueue
    /\ batcherDead = FALSE
    /\ pcDriver = "top"
    /\ ops = <<>>
    /\ slaveDelaySecs \in {0, 1}
    /\ oplogBuffer \in BuffersOf(IF slaveDelaySecs > 0 THEN DelayedKinds ELSE PopKinds)
    /\ batcherOps = EmptyOpQueue
    /\ batchLimits = [ops |-> MaxBatchOps, bytes |-> BatchLimitBytes,
                      slaveDelayLatestTimestamp |-> NoDelayLimit]
    /\ pcBatcher = "limits"
    /\ wallClock = 1
    /\ inShutdown = FALSE
    /\ currentTerm = 1
    /\ termWhenBufferIsEmpty = 1

NextPop ==
    \/ BatcherRunLimits
    \/ BatcherRunPop
    \/ BatcherRunPublish
    \/ ApplierLoopTop
    \/ GetNextBatch
    \/ SignalDrainComplete
    \/ ApplierApplyBatch
    \/ RequestShutdown
    \/ WallClockTick
    \/ TermChange

SpecPop == InitPop /\ [][NextPop]_vars

\* The batcher thread and the thread running _oplogApplication are both
\* scheduled: each takes its next step when that step stays possible.  The
\* waits of both are bounded (one second) or end when the other thread
\* notifies _cv.
BatcherThread == BatcherRunLimits \/ BatcherRunPop \/ BatcherRunPublish

ApplierThread == ApplierLoopTop \/ GetNextBatch \/ SignalDrainComplete \/ ApplierApplyBatch

\* The kinds of entries left in the buffer when the node is shut down: those
\* that differ in how they are cut into batches.
LiveKinds == {"crud", "big", "create", "applyOps"}

InitPopLive == InitPop /\ oplogBuffer \in BuffersOf(LiveKinds)

SpecPopLive ==
    /\ InitPopLive
    /\ [][NextPop]_vars
    /\ WF_vars(BatcherThread)
    /\ WF_vars(ApplierThread)

\* ---- claims about the batcher ----

\* The batches in existence: the one the batcher is filling or waiting to
\* publish, the one in the hand-off slot, the one the driver is applying.
InFlightBatches == {batcherOps.ops, opsSlot.ops, ops}

WithinLimits(b) ==
    /\ Len(b) <= batchLimits.ops
    /\ SumBytes(b) <= batchLimits.bytes \/ Len(b) = 1

\* C15: no batch holds more than maxOps entries, and none is larger than
\* maxBytes unless it is a single entry; so an entry larger than maxBytes
\* travels alone.
C15_BatchesRespectLimits ==
    \A b \in InFlightBatches :
        /\ WithinLimits(b)
        /\ \A i \in 1..Len(b) : b[i].objsize > batchLimits.bytes => Len(b) = 1

\* The driver is applying a batch that is one entry larger than maxBytes,
\* which came after a batch cut short by the byte limit.
C15_Witness ==
    /\ pcDriver = "apply"
    /\ Len(ops) = 1
    /\ ops[1].objsize > batchLimits.bytes
    /\ ops[1].ts > 1

\* The entry is a command other than an unprepared commitTransaction or an
\* unprepared applyOps, or is on system.views or on admin.system.version.
ProcessedAlone(e) ==
    \/ e.opType = "c" /\ ~(e.cmd \in {"commitTransaction", "applyOps"} /\ ~e.prepared)
    \/ e.ns = "a.system.views"
    \/ e.ns = "admin.system.version"

\* C16: a command other than an unprepared commitTransaction or applyOps, and
\* an entry on system.views or admin.system.version, is the only entry of its
\* batch.
C16_IsolatedEntriesAlone ==
    \A b \in InFlightBatches :
        \A i \in 1..Len(b) : ProcessedAlone(b[i]) => Len(b) = 1

\* The driver is applying an unprepared applyOps or commitTransaction
\* together with a CRUD entry, and the next batch is an isolated entry.
C16_Witness ==
    /\ pcDriver = "apply"
    /\ Len(ops) = 2
    /\ \E i \in 1..2 : ops[i].cmd \in {"commitTransaction", "applyOps"}
    /\ \E i \in 1..2 : ops[i].opType = "i"
    /\ Len(opsSlot.ops) = 1
    /\ ProcessedAlone(opsSlot.ops[1])

\* C17: the batcher goes to publish only a queue that has entries or carries
\* mustShutdown; the flag is set only on an empty queue at shutdown; so with
\* the buffer empty and no shutdown requested nothing is published.
C17_NoEmptyBatchPublished ==
    /\ pcBatcher = "publish" => (batcherOps.ops # <<>> \/ batcherOps.mustShutdown)
    /\ batcherOps.mustShutdown => (inShutdown /\ batcherOps.ops = <<>>)
    /\ opsSlot.mustShutdown => (inShutdown /\ batcherDead /\ opsSlot.ops = <<>>)
    /\ (oplogBuffer = <<>> /\ batcherOps.ops = <<>> /\ ~inShutdown) => pcBatcher # "publish"

\* The batcher has drained the buffer, published the shutdown batch and died.
C17_Witness ==
    /\ batcherDead
    /\ opsSlot.mustShutdown
    /\ opsSlot.ops = <<>>
    /\ pcDriver = "getBatch"

\* C18: when the driver is about to call signalDrainComplete, the buffer is
\* drained (nothing in the oplog buffer, nothing in a queue the batcher has
\* not published), and the term it passes was read before the wait.
C18_SignalOnlyWhenDrained ==
    pcDriver = "signal" =>
        /\ oplogBuffer = <<>>
        /\ batcherOps.ops = <<>>
        /\ termWhenBufferIsEmpty <= currentTerm

\* C19 as stated: with a slave delay, an entry whose timestamp is exactly
\* slaveDelayLatestTimestamp is not put into the batch.
C19_EntryAtLimitHeldBack ==
    batchLimits.slaveDelayLatestTimestamp.enabled =>
        \A i \in 1..Len(batcherOps.ops) :
            batcherOps.ops[i].ts < batchLimits.slaveDelayLatestTimestamp.at

\* C19, amended: with a slave delay, an entry is put into a batch only if its
\* timestamp is at or before slaveDelayLatestTimestamp, so every entry of a
\* batch is at least the delay old.
C19_EntriesAllowedByDelay ==
    /\ batchLimits.slaveDelayLatestTimestamp.enabled =>
          \A i \in 1..Len(batcherOps.ops) :
              batcherOps.ops[i].ts <= batchLimits.slaveDelayLatestTimestamp.at
    /\ slaveDelaySecs > 0 =>
          \A b \in InFlightBatches :
              \A i \in 1..Len(b) : b[i].ts + slaveDelaySecs <= wallClock

\* The batch holds the entry that is exactly at the limit, and the next entry
\* is held back in the buffer.
C19_Witness ==
    /\ batchLimits.slaveDelayLatestTimestamp.enabled
    /\ pcBatcher = "publish"
    /\ batcherOps.ops # <<>>
    /\ batcherOps.ops[Len(batcherOps.ops)].ts = batchLimits.slaveDelayLatestTimestamp.at
    /\ oplogBuffer # <<>>
    /\ Head(oplogBuffer).ts > batchLimits.slaveDelayLatestTimestamp.at
    /\ ~ProcessedAlone(Head(oplogBuffer))
    /\ Len(batcherOps.ops) < batchLimits.ops

\* C20: the slot changes only by the batcher putting its queue into the empty
\* slot, or by the driver taking what the slot holds and leaving it empty; no
\* published batch is overwritten and each is taken once.
C20_SingleSlotHandOff ==
    [][opsSlot' # opsSlot =>
          \/ /\ opsSlot = EmptyOpQueue
             /\ pcBatcher = "publish"
             /\ opsSlot' = batcherOps
          \/ /\ opsSlot' = EmptyOpQueue
             /\ pcDriver = "getBatch"
             /\ ops' = opsSlot.ops]_vars

\* The batcher is blocked with its next batch while the slot still holds the
\* previous one and the driver applies the one before.
C20_Witness ==
    /\ pcBatcher = "publish"
    /\ batcherOps.ops # <<>>
    /\ opsSlot.ops # <<>>
    /\ pcDriver = "apply"
    /\ opsSlot.ops[1].ts = ops[Len(ops)].ts + 1
    /\ batcherOps.ops[1].ts = opsSlot.ops[Len(opsSlot.ops)].ts + 1

(***************************************************************************)
(* multiApply with its workers and their statuses: the check of the        *)
(* applier state at entry, multiSyncApply's handling of the errors of      *)
(* syncApply, and the scan of the status vector.  The writer an operation  *)
(* goes to is left open here.                                              *)
(***************************************************************************)

\* The kinds of CRUD entries of a batch: an insert that applies; an insert
\* and a delete on a namespace that was dropped; an insert that
\* applyOperation_inlock refuses; an update of a document that is not there.
ErrKinds == {"insert", "insertGone", "deleteGone", "insertBad", "updateNoDoc"}

\* The namespaces that do not exist on this node.
DroppedNamespaces == {"c"}

ErrEntry(kind, t) ==
    [opTime |-> t,
     opType |-> CASE kind = "deleteGone" -> "d"
                  [] kind = "updateNoDoc" -> "u"
                  [] OTHER -> "i",
     ns |-> IF kind \in {"insertGone", "deleteGone"} THEN "c" ELSE "a",
     result |-> CASE kind = "insertBad" -> "BadValue"
                  [] kind = "updateNoDoc" -> "UpdateOperationFailed"
                  [] OTHER -> "OK"]

ErrBatches ==
    UNION { { [i \in 1..n |-> ErrEntry(ks[i], i)] : ks \in [1..n -> ErrKinds] } :
            n \in 1..MaxBatchOps }

ApplicationModes == {"Secondary", "InitialSync", "Recovering", "ApplyOpsCmd"}

\* "Assume we are recovering if oplog writes are disabled in the options.
\* Assume we are in initial sync if we have a host for fetching missing
\* documents."
OplogApplicationMode(skipWrites, options) ==
    IF skipWrites THEN "Recovering"
    ELSE IF options.missingDocumentSourceForInitialSync THEN "InitialSync"
    ELSE "Secondary"

\* applyOp: updates are applied as upserts but in initial sync, so that only
\* there the missing document makes the update fail.
ApplyOperation(op, mode) ==
    IF op.result = "UpdateOperationFailed" /\ mode # "InitialSync" THEN "OK" ELSE op.result

\* Initial sync ignores the missing namespace as recovery does.
NamespaceNotFoundIgnoredInInitialSync(opType, mode) ==
    mode = "Recovering" \/ opType = "d" \/ mode = "InitialSync"

\* The catch block of syncApply: TRUE when the NamespaceNotFound exception
\* becomes Status::OK().
NamespaceNotFoundIgnored(opType, mode) ==
    mode = "Recovering" \/ opType = "d" \/ mode = "Recovering"

\* SyncTail::syncApply for a CRUD entry: the status it returns, or the error
\* it throws.
SyncApplyCrud(op, mode) ==
    IF op.ns \in DroppedNamespaces
    THEN IF NamespaceNotFoundIgnored(op.opType, mode)
         THEN [thrown |-> FALSE, code |-> "OK"]
         ELSE [thrown |-> TRUE, code |-> "NamespaceNotFound"]
    ELSE [thrown |-> FALSE, code |-> ApplyOperation(op, mode)]

\* The catch block of multiSyncApply: TRUE when the worker goes on.
CaughtAndIgnored(code, op, options) ==
    /\ code = "NamespaceNotFound"
    /\ IsCrudOpType(op)
    /\ options.allowNamespaceNotFoundErrorsOnCrudOps

\* One round of the loop of multiSyncApply for an entry applied alone:
\* "continue", or the status the worker returns.
MultiSyncApplyOne(op, mode, options) ==
    LET r == SyncApplyCrud(op, mode)
    IN  IF r.thrown
        THEN IF CaughtAndIgnored(r.code, op, options) THEN "continue" ELSE r.code
        ELSE IF r.code = "OK" THEN "continue"
        ELSE IF r.code = "UpdateOperationFailed" /\ options.missingDocumentSourceForInitialSync
        THEN "continue"
        ELSE r.code

\* The worker reports its own failure as success.
FirstNotOKNone(statuses) == "OK"

\* "If any of the statuses is not ok, return error": the first one, in the
\* order of the writers.
FirstNotOK(statuses) ==
    LET bad == { w \in DOMAIN statuses : statuses[w] # "OK" }
    IN  IF bad = {} THEN "OK"
        ELSE statuses[CHOOSE w \in bad : \A x \in bad : w <= x]

\* The operations of the batch that go to writer w, in the order of the batch.
Routed(b, f, w) ==
    LET idx == SelectSeq([i \in 1..Len(b) |-> i], LAMBDA i : f[i] = w)
    IN  [j \in 1..Len(idx) |-> b[idx[j]]]

errFrame ==
    /\ UNCHANGED <<numWriters, supportsDocLocking, beginApplyingOpTime, txnOplog, batch,
                   derivedOps>>
    /\ UNCHANGED <<sweepVars, popVars, applyOptions, catalogVars>>

\* Other threads of the replication coordinator: the node wins an election
\* (Draining), finishes draining (Stopped), steps down (Running).
EnvSetApplierState ==
    /\ pcDriver \in {"multiApply", "writes"}
    /\ applierState' = CASE applierState = "Running" -> "Draining"
                         [] applierState = "Draining" -> "Stopped"
                         [] OTHER -> "Running"
    /\ UNCHANGED <<driverSide, fillVars, sweepVars, popVars, catalogVars,
                   applyOptions, statusVector, multiApplyStatus>>

\* _fillWriterVectors, the status vector and _applyOps: a task is scheduled
\* for every writer whose vector is not empty.
ErrFillAndSchedule ==
    /\ pcDriver = "apply"
    /\ pcFill = "start"
    /\ \E f \in [1..Len(batch) -> 1..numWriters] :
          /\ writerVectors' = [w \in 1..numWriters |-> Routed(batch, f, w)]
          /\ pcWorker' = [w \in 1..numWriters |->
                             IF Routed(batch, f, w) = <<>> THEN "idle" ELSE "scheduled"]
    /\ statusVector' = [w \in 1..numWriters |-> "OK"]
    /\ pcFill' = "waitForIdle"
    /\ UNCHANGED <<workerPos, appliedLog, applierState, multiApplyStatus, driverSide>>
    /\ errFrame

\* One round of the loop of multiSyncApply, the entry applied alone; the
\* worker returns at the first status that is not ignored, and at the end.
ErrWorkerApply(w) ==
    /\ pcFill = "waitForIdle"
    /\ pcWorker[w] = "loop"
    /\ LET op == writerVectors[w][workerPos[w]]
           mode == OplogApplicationMode(skipWritesToOplog, applyOptions)
           r == MultiSyncApplyOne(op, mode, applyOptions)
       IN  IF r = "continue"
           THEN /\ appliedLog' = IF op.ns \in DroppedNamespaces \/ ApplyOperation(op, mode) # "OK"
                                 THEN appliedLog ELSE Append(appliedLog, op)
                /\ workerPos' = [workerPos EXCEPT ![w] = @ + 1]
                /\ pcWorker' = [pcWorker EXCEPT
                                   ![w] = IF workerPos[w] + 1 > Len(writerVectors[w])
                                          THEN "idle" ELSE "loop"]
                /\ UNCHANGED statusVector
           ELSE /\ statusVector' = [statusVector EXCEPT ![w] = r]
                /\ pcWorker' = [pcWorker EXCEPT ![w] = "idle"]
                /\ UNCHANGED <<workerPos, appliedLog>>
    /\ UNCHANGED <<writerVectors, pcFill, applierState, multiApplyStatus, driverSide>>
    /\ errFrame

\* waitForIdle returns and the status vector is scanned; a status that is not
\* OK is what multiApply returns, and fassertNoTrace(34437) ends the process.
MultiApplyReturn ==
    /\ pcDriver = "apply"
    /\ pcFill = "waitForIdle"
    /\ \A w \in 1..numWriters : pcWorker[w] = "idle"
    /\ multiApplyStatus' = FirstNotOK(statusVector)
    /\ pcDriver' = IF FirstNotOK(statusVector) = "OK" THEN "setAppliedThrough" ELSE "fatal"
    /\ pcFill' = "applied"
    /\ UNCHANGED <<minValid, ops, lastAppliedOpTimeAtStartOfBatch,
                   coordVars, markerVars, optionVars, batcherVars, finalizerVars>>
    /\ UNCHANGED <<writerVectors, pcWorker, workerPos, appliedLog, applierState, statusVector>>
    /\ errFrame

\* _oplogApplication has taken a batch and checked its order; multiApply is
\* about to be called.
InitErr ==
    /\ SweepIdle
    /\ PopIdle
    /\ CatalogIdle
    /\ numWriters = MaxWriters
    /\ supportsDocLocking = TRUE
    /\ beginApplyingOpTime = NullOpTime
    /\ txnOplog = <<>>
    /\ batch \in ErrBatches
    /\ writerVectors = [w \in 1..numWriters |-> <<>>]
    /\ derivedOps = <<>>
    /\ pcFill = "start"
    /\ pcWorker = [w \in 1..numWriters |-> "idle"]
    /\ workerPos = [w \in 1..numWriters |-> 1]
    /\ appliedLog = <<>>
    /\ memberState = "RECOVERING"
    /\ maintenanceMode = FALSE
    /\ myLastAppliedOpTime = NullOpTime
    /\ myLastDurableOpTime = NullOpTime
    /\ minValidDoc = NullOpTime
    /\ appliedThrough = NullOpTime
    /\ oplogTruncateAfterPoint = NullOpTime
    /\ oplogRs = {}
    /\ oplogVisible = NullOpTime
    /\ isDurable = FALSE
    /\ skipWritesToOplog \in BOOLEAN
    /\ opsSlot = EmptyQueue
    /\ batcherDead = FALSE
    /\ pcDriver = "multiApply"
    /\ minValid = NullOpTime
    /\ ops = [i \in 1..Len(batch) |-> batch[i].opTime]
    /\ lastAppliedOpTimeAtStartOfBatch = NullOpTime
    /\ latestOpTime = NullOpTime
    /\ shutdownSignaled = FALSE
    /\ pcWaiter = "none"
    /\ waiterLatest = NullOpTime
    /\ applierState = "Running"
    /\ applyOptions \in [missingDocumentSourceForInitialSync : BOOLEAN,
                         allowNamespaceNotFoundErrorsOnCrudOps : BOOLEAN]
    /\ statusVector = <<>>
    /\ multiApplyStatus = "none"

NextErr ==
    \/ EnvSetApplierState
    \/ DriverMultiApplyBegin
    \/ DriverWritesDone
    \/ ErrFillAndSchedule
    \/ \E w \in 1..numWriters : WorkerSort(w)
    \/ \E w \in 1..numWriters : ErrWorkerApply(w)
    \/ MultiApplyReturn
    \/ DriverSetAppliedThrough
    \/ DriverRegisterOplog
    \/ DriverRecord

SpecErr == InitErr /\ [][NextErr]_vars

\* ---- claims about shutdown and about errors ----

\* C21: once shutdown has been requested and the oplog buffer is empty, the
\* batcher eventually publishes the mustShutdown batch and is dead and the
\* driver loop eventually returns; when the driver has returned the batcher
\* is dead and no batch is left unapplied; a mustShutdown batch is empty.
C21_ShutdownTerminates ==
    /\ (inShutdown /\ oplogBuffer = <<>>) ~> (batcherDead /\ pcDriver = "done")
    /\ [](pcDriver = "done" =>
            /\ batcherDead
            /\ ops = <<>> /\ opsSlot.ops = <<>> /\ batcherOps.ops = <<>>
            /\ oplogBuffer = <<>>)
    /\ [](opsSlot.mustShutdown => opsSlot.ops = <<>>)

\* Shutdown was requested, the batcher has published its last batch and is
\* dead, and the driver has returned.
C21_Witness ==
    /\ inShutdown
    /\ pcDriver = "done"
    /\ batcherDead
    /\ pcBatcher = "dead"

\* The worker w takes a round of its loop in this step.
WorkerStepped(w) ==
    /\ pcWorker[w] = "loop"
    /\ workerPos'[w] # workerPos[w] \/ pcWorker'[w] # pcWorker[w]

\* The entry the worker w is at.
CurrentOp(w) == writerVectors[w][workerPos[w]]

ModeNow == OplogApplicationMode(skipWritesToOplog, applyOptions)

C23_StoppedApplierFailsBatch ==
    /\ [][(pcDriver = "multiApply" /\ pcDriver' # pcDriver) =>
             IF applierState = "Stopped"
             THEN /\ multiApplyStatus' = "CannotApplyOplogWhilePrimary"
                  /\ pcDriver' = "fatal"
                  /\ UNCHANGED <<oplogRs, oplogTruncateAfterPoint, minValidDoc, minValid,
                                 writerVectors, pcWorker, statusVector, appliedLog>>
             ELSE /\ multiApplyStatus' = "none"
                  /\ pcDriver' = "writes"]_vars
    /\ [](multiApplyStatus = "CannotApplyOplogWhilePrimary" =>
             /\ pcDriver = "fatal"
             /\ oplogRs = {}
             /\ oplogTruncateAfterPoint = NullOpTime
             /\ minValidDoc = NullOpTime
             /\ appliedLog = <<>>
             /\ \A w \in 1..numWriters : writerVectors[w] = <<>> /\ pcWorker[w] = "idle")

\* multiApply was entered with the applier stopped and has failed the batch.
C23_Witness ==
    /\ applierState = "Stopped"
    /\ multiApplyStatus = "CannotApplyOplogWhilePrimary"
    /\ pcDriver = "fatal"
    /\ ~skipWritesToOplog

\* The writers whose status is not OK.
FailedWriters == { w \in DOMAIN statusVector : statusVector[w] # "OK" }

\* C24: when a worker has returned a status that is not OK, multiApply
\* returns, once every worker has finished, the status of the failed worker
\* with the lowest index; the driver is then at the fatal assertion, with
\* appliedThrough and lastApplied as they were before the batch.  The driver
\* goes on to appliedThrough only with every status OK.
C24_WorkerFailureIsFatal ==
    /\ (pcFill = "applied" /\ FailedWriters # {}) =>
          /\ pcDriver = "fatal"
          /\ \A w \in 1..numWriters : pcWorker[w] = "idle"
          /\ \E w \in FailedWriters :
                /\ multiApplyStatus = statusVector[w]
                /\ \A x \in FailedWriters : w <= x
          /\ appliedThrough = NullOpTime
          /\ myLastAppliedOpTime = lastAppliedOpTimeAtStartOfBatch
    /\ pcDriver \in {"setAppliedThrough", "register", "record", "top"} =>
          (FailedWriters = {} /\ multiApplyStatus = "OK")

\* Two workers have failed with different statuses and multiApply has
\* returned that of the first.
C24_Witness ==
    /\ pcFill = "applied"
    /\ pcDriver = "fatal"
    /\ \E w1, w2 \in FailedWriters :
          /\ w1 < w2
          /\ statusVector[w1] # statusVector[w2]
          /\ multiApplyStatus = statusVector[w1]

\* A worker is scheduled or takes a step.
AppliersRun == pcWorker' # pcWorker \/ appliedLog' # appliedLog

\* C27 as stated: with oplog writes enabled, oplogTruncateAfterPoint stays at
\* the first timestamp of the batch and minValid stays as it was until the
\* appliers have finished.
C27_MarkersResetAfterAppliers ==
    (~skipWritesToOplog /\ pcDriver = "apply" /\ pcFill # "applied") =>
        /\ oplogTruncateAfterPoint = Head(ops)
        /\ minValidDoc < Last(ops)

\* C27, amended: with oplog writes enabled, the oplog is written only while
\* oplogTruncateAfterPoint is the first timestamp of the batch; once the
\* oplog writers have finished, and before any applier is scheduled,
\* oplogTruncateAfterPoint is cleared and minValid raised to the maximum of
\* minValid and the last optime of the batch; the appliers run with the
\* markers already reset and the batch in the oplog.
C27_MarkersResetBeforeAppliers ==
    [][~skipWritesToOplog =>
          /\ oplogRs' # oplogRs =>
                (oplogTruncateAfterPoint = Head(ops) /\ ~AppliersRun /\ appliedLog = <<>>)
          /\ (oplogTruncateAfterPoint # NullOpTime /\ oplogTruncateAfterPoint' = NullOpTime) =>
                /\ pcDriver = "writes"
                /\ pcFill = "start"
                /\ minValidDoc' = Max(minValidDoc, Last(ops))
                /\ \A i \in 1..Len(ops) : ops[i] \in oplogRs'
          /\ AppliersRun =>
                /\ oplogTruncateAfterPoint = NullOpTime
                /\ minValidDoc >= Last(ops)
                /\ \A i \in 1..Len(ops) : ops[i] \in oplogRs]_vars

\* A worker is in its loop, nothing is applied yet, and the markers are
\* already reset.
C27_Witness ==
    /\ ~skipWritesToOplog
    /\ pcDriver = "apply"
    /\ pcFill = "waitForIdle"
    /\ \E w \in 1..numWriters : pcWorker[w] = "loop"
    /\ appliedLog = <<>>
    /\ oplogTruncateAfterPoint = NullOpTime
    /\ minValidDoc = Last(ops)

\* C28: for a batch multiApply has applied, the driver persists
\* appliedThrough = last optime of the batch, then registers oplog visibility
\* at the last timestamp of the batch, then calls the finalizer, which
\* publishes lastApplied; each of the three changes at its own step only, so
\* once per batch and in this order, and lastApplied is published only with
\* appliedThrough of that batch persisted.
C28_FinalizeOrder ==
    [][/\ (pcDriver = "setAppliedThrough" /\ pcDriver' # pcDriver) =>
             (appliedThrough' = Last(ops) /\ pcDriver' \in {"register", "fatal"})
       /\ (pcDriver = "register" /\ pcDriver' # pcDriver) =>
             (oplogVisible' = Last(ops) /\ pcDriver' = "record")
       /\ (pcDriver = "record" /\ pcDriver' # pcDriver) =>
             (myLastAppliedOpTime' = Last(ops) /\ pcDriver' \in {"recordLatest", "top"})
       /\ appliedThrough' # appliedThrough => pcDriver = "setAppliedThrough"
       /\ oplogVisible' # oplogVisible =>
             (pcDriver = "register" /\ appliedThrough = Last(ops))
       /\ myLastAppliedOpTime' # myLastAppliedOpTime =>
             /\ pcDriver = "record"
             /\ appliedThrough = myLastAppliedOpTime'
             /\ oplogVisible = myLastAppliedOpTime']_vars

\* appliedThrough is persisted and the visibility registered for a second
\* batch whose lastApplied is not published yet.
C28_Witness ==
    /\ pcDriver = "record"
    /\ appliedThrough = Last(ops)
    /\ oplogVisible = Last(ops)
    /\ myLastAppliedOpTime < Last(ops)
    /\ myLastAppliedOpTime \in oplogRs

(***************************************************************************)
(* Claims about going live as a secondary.                                 *)
(***************************************************************************)

\* What the claim asks of the node: RECOVERING, not in maintenance mode and
\* lastApplied at or past the persisted minValid.
Eligible ==
    /\ memberState = "RECOVERING"
    /\ ~maintenanceMode
    /\ myLastAppliedOpTime >= minValidDoc

\* The loop of _oplogApplication has neither returned nor failed fatally.
LoopRuns == pcDriver \notin {"fatal", "dtor", "join", "done"}

\* C29: while the driver loop runs, a node that stays RECOVERING, out of
\* maintenance mode and with lastApplied >= minValid is eventually made
\* SECONDARY by the driver; a failed setFollowerMode only sends the driver on
\* to getNextBatch, the attempt is made on every iteration that finds the
\* node neither primary nor secondary, and an iteration without a batch
\* goes back to the top of the loop.
C29_EventuallySecondary ==
    /\ (Eligible /\ LoopRuns) ~> (memberState = "SECONDARY" \/ ~Eligible \/ ~LoopRuns)
    /\ [][/\ (pcDriver = "goLive" /\ pcDriver' # pcDriver) => pcDriver' = "getBatch"
          /\ (pcDriver = "top" /\ pcDriver' # pcDriver /\ memberState \notin {"PRIMARY", "SECONDARY"})
                => pcDriver' = "goLive"
          /\ (pcDriver = "getBatch" /\ pcDriver' # pcDriver
                /\ opsSlot.ops = <<>> /\ ~opsSlot.mustShutdown)
                => pcDriver' = "top"
          /\ (memberState' = "SECONDARY" /\ memberState # "SECONDARY")
                => (pcDriver = "goLive" /\ Eligible)]_vars

\* The node is RECOVERING again after a time in another state, all the
\* conditions hold, and the driver is in a later iteration about to try.
C29_Witness ==
    /\ pcDriver = "goLive"
    /\ Eligible
    /\ minValid = minValidDoc
    /\ myLastAppliedOpTime > NullOpTime
    /\ oplogRs # {}

(***************************************************************************)
(* Claims about the sweeper's errors and about the mark phase.             *)
(***************************************************************************)

\* The step is one in which the sweep called __sweep_expire_one,
\* __wt_conn_dhandle_close (from __sweep_discard_trees) or __sweep_remove_one
\* for handle h.
CalledFor(h) ==
    \/ pcSweep \in {"expireOne", "removeOne"} /\ sweepCursor = h /\ pcSweep' # pcSweep
    \/ /\ pcSweep = "discard" /\ pcSweep' # pcSweep
       /\ dhandles[h].listed /\ dhandles[h].open /\ dhandles[h].dead
       /\ \A g \in 1..(h - 1) : sweepRet'[g] # "WT_ERROR"

\* The loop the sweep is in goes on to the handle after h.
GoesOn(h) ==
    /\ pcSweep = "expireOne" => (pcSweep' = "expire" /\ sweepCursor' = h + 1)
    /\ pcSweep = "removeOne" => (pcSweep' = "remove" /\ sweepCursor' = h + 1)
    /\ pcSweep = "discard" =>
          \A g \in (h + 1)..MaxHandles :
              (dhandles[g].listed /\ dhandles[g].open /\ dhandles[g].dead
                  /\ \A f \in 1..g : sweepRet'[f] # "WT_ERROR")
              => (sweepRet'[g] = "0" => ~dhandles'[g].open)

\* C25: in the expire, discard and remove phases the sweep meets EBUSY for a
\* handle whose lock it cannot take, and may meet it from the close or the
\* discard; in each case the handle is as it was, no lock is left held by the
\* sweep, and the sweep goes on with the next handle.  Any other error ends
\* the sweep there: the server panics, which happens for no other reason, it
\* does not record the sweep as done and takes no further step.
C25_BusyIsSkippedErrorPanics ==
    [][/\ \A h \in Handles :
             /\ (CalledFor(h) /\ sweepRet'[h] = "EBUSY") =>
                   /\ dhandles'[h] = dhandles[h]
                   /\ pcSweep' # "panic" \/ \E f \in Handles : sweepRet'[f] = "WT_ERROR"
                   /\ GoesOn(h)
             /\ (CalledFor(h) /\ sweepRet'[h] = "WT_ERROR") =>
                   /\ pcSweep' = "panic"
                   /\ dhandles'[h] = dhandles[h]
             /\ ( /\ CalledFor(h)
                  /\ pcSweep \in {"expireOne", "removeOne"}
                  /\ dhandles[h].writeLocked \/ dhandles[h].session_inuse > 0 ) =>
                   sweepRet'[h] = "EBUSY"
       /\ (pcSweep' = "panic" /\ pcSweep # "panic") =>
             /\ \E h \in Handles : CalledFor(h) /\ sweepRet'[h] = "WT_ERROR"
             /\ lastSweep' = lastSweep
       /\ pcSweep = "panic" =>
             UNCHANGED <<pcSweep, lastSweep, now, sweepCursor, dead_handles,
                         open_btree_count, sweepRet>>]_vars

\* __sweep_expire could not lock handle 1, which a session holds exclusively,
\* and is at the next handle.
C25_Witness ==
    /\ pcSweep = "expire"
    /\ sweepCursor = 2
    /\ sweepRet[1] = "EBUSY"
    /\ dhandles[1].writeLocked
    /\ dhandles[1].open /\ ~dhandles[1].dead

\* The step is the one in which __sweep_server runs __sweep_mark.
MarkRuns == pcSweep = "wait" /\ pcSweep' # "wait" /\ sweep_idle_time # 0

\* C30: __sweep_mark changes nothing but the time of death of data handles:
\* with more than one user the time of death is cleared; with none, the
\* handle not exclusive and no time of death yet, it is set to the time of the
\* sweep; every other handle, the metadata handle among them, stays as it is.
C30_MarkChangesOnlyTimeOfDeath ==
    [][MarkRuns =>
          /\ metadata' = metadata
          /\ open_btree_count' = open_btree_count
          /\ \A h \in Handles :
                LET d == dhandles[h]
                    e == dhandles'[h]
                IN  /\ e = [d EXCEPT !.timeofdeath = e.timeofdeath]
                    /\ e.timeofdeath =
                          IF ~d.listed THEN d.timeofdeath
                          ELSE IF d.session_inuse > 1 THEN 0
                          ELSE IF ~d.exclusive /\ d.session_inuse = 0 /\ d.timeofdeath = 0
                               THEN now'
                          ELSE d.timeofdeath]_vars

\* The second sweep has just marked: handle 1 has two cursors open and no
\* time of death, the other handle keeps the time of death of an earlier
\* sweep, and the metadata handle, idle all along, has none.
C30_Witness ==
    /\ pcSweep \in {"expire", "discard"}
    /\ sweepCursor = 1
    /\ now = clock
    /\ now > 1
    /\ dhandles[1].session_inuse > 1
    /\ dhandles[1].timeofdeath = 0
    /\ dhandles[2].timeofdeath # 0
    /\ dhandles[2].timeofdeath < now
    /\ metadata.session_inuse = 0 /\ ~metadata.exclusive /\ metadata.timeofdeath = 0

(***************************************************************************)
(* Claims about parallelism within one collection.                         *)
(***************************************************************************)

\* Two CRUD operations on one document of a collection that is not capped.
SameDocument(x, y) ==
    /\ IsCrudOpType(x) /\ IsCrudOpType(y)
    /\ x.ns = y.ns /\ ~IsCapped(x.ns)
    /\ x.id = y.id

\* C26: with document-level locking, two dispatched CRUD operations on the
\* same namespace, not capped, and the same _id are in the sub-list of one
\* worker, there in the order they have in the batch, and are applied by that
\* worker in that order.  (That operations on different _ids can be with
\* different workers is what the witness shows.)
C26_SameDocumentOneWorkerInOrder ==
    supportsDocLocking =>
        /\ Filled =>
              \A x, y \in WriterSlots :
                  SameDocument(OpAt(x), OpAt(y)) =>
                      /\ x[1] = y[1]
                      /\ x[2] < y[2] => BatchOrderBefore(OpAt(x), OpAt(y))
        /\ \A i, j \in 1..Len(appliedLog) :
              (i < j /\ SameDocument(appliedLog[i], appliedLog[j])) =>
                  /\ appliedLog[i].worker = appliedLog[j].worker
                  /\ BatchOrderBefore(appliedLog[i], appliedLog[j])

\* Document locking, more than one writer: two operations on one document
\* of "a" were applied by one worker, the earlier first, and an operation on
\* another document of "a" by another worker before both of them.
C26_Witness ==
    /\ pcFill = "applied" /\ supportsDocLocking /\ numWriters > 1
    /\ \E i, j, k \in 1..Len(appliedLog) :
          /\ k < i /\ i < j
          /\ SameDocument(appliedLog[i], appliedLog[j])
          /\ appliedLog[i].opTime < appliedLog[j].opTime
          /\ appliedLog[k].ns = appliedLog[i].ns
          /\ IsCrudOpType(appliedLog[k])
          /\ appliedLog[k].id # appliedLog[i].id
          /\ appliedLog[k].worker # appliedLog[i].worker
          /\ appliedLog[k].opTime > appliedLog[j].opTime

\* The handle is closed and nobody holds or uses it.
Discardable(h) ==
    /\ ~dhandles[h].exclusive /\ ~dhandles[h].open
    /\ dhandles[h].session_inuse = 0 /\ dhandles[h].session_ref = 0

\* __sweep_remove_one is being called for the handle at sweepCursor, under
\* the handle list lock.
RemoveOneCalled == pcSweep = "removeOne" /\ pcSweep' # "removeOne"

\* C31: a handle leaves the list only in a call of __sweep_remove_one for
\* it, with its write lock free to take and the handle discardable at that
\* moment; when the handle is no longer discardable at the call (a session
\* took a reference after the test of __sweep_remove_handles) it stays on
\* the list, as it was and not locked by the sweep, the call returns
\* EBUSY and the sweep goes on.
C31_RemoveRechecksUnderLocks ==
    /\ [][\A h \in Handles :
             (dhandles[h].listed /\ ~dhandles'[h].listed) =>
                 /\ RemoveOneCalled /\ sweepCursor = h
                 /\ ~dhandles[h].writeLocked
                 /\ Discardable(h)
                 /\ sweepRet'[h] = "0"]_vars
    /\ [][(RemoveOneCalled /\ ~Discardable(sweepCursor)) =>
             /\ dhandles' = dhandles
             /\ sweepRet'[sweepCursor] = "EBUSY"
             /\ pcSweep' = "remove" /\ sweepCursor' = sweepCursor + 1]_vars

\* The remove phase has passed both handles.  The first, closed and
\* discardable at the test of __sweep_remove_handles, was taken by a session
\* before the locks were: it is on the list, not locked, and the call
\* returned EBUSY.  The second has been unlinked.
C31_Witness ==
    /\ pcSweep = "remove" /\ sweepCursor = 3
    /\ dhandles[1].listed /\ ~dhandles[1].open /\ ~dhandles[1].writeLocked
    /\ dhandles[1].session_ref = 1
    /\ sweepRet[1] = "EBUSY"
    /\ ~dhandles[2].listed /\ sweepRet[2] = "0"

\* The entries on their way, oldest first: the batch the driver is
\* applying, the batch in the hand-off slot, the batch the batcher is
\* filling, and what is left in the oplog buffer.
Chain == ops \o opsSlot.ops \o batcherOps.ops \o oplogBuffer

\* The producer numbered the entries one after the other.
Consecutive(entries) == \A i \in 1..(Len(entries) - 1) : entries[i + 1].ts = entries[i].ts + 1

\* C36: without shutdown, the entries on their way stay the same sequence,
\* in the order of the buffer with none missing and none twice, from which
\* only the driver takes entries, the whole batch it has applied; and a
\* batch is started with the entry at the head of the buffer, which is
\* where an entry that was looked at and left out of a batch has stayed.
C36_BatchesPartitionBufferInOrder ==
    /\ [](~inShutdown => Consecutive(Chain))
    /\ [][~inShutdown' =>
             \/ Chain' = Chain
             \/ pcDriver = "apply" /\ ops # <<>> /\ Chain = ops \o Chain']_vars
    /\ [][(~inShutdown' /\ batcherOps.ops = <<>> /\ batcherOps'.ops # <<>>) =>
             /\ oplogBuffer # <<>>
             /\ batcherOps'.ops = <<Head(oplogBuffer)>>
             /\ oplogBuffer' = Tail(oplogBuffer)]_vars
    /\ [][(~inShutdown' /\ pcBatcher = "pop" /\ pcBatcher' = "publish"
               /\ batcherOps'.ops = batcherOps.ops) =>
             oplogBuffer' = oplogBuffer]_vars

\* The driver is applying a batch of one insert although the limits allow
\* more: the command after it was looked at and left in the buffer, has
\* since been published alone, and the batcher is filling a third batch
\* with the entry after the command.
C36_Witness ==
    /\ ~inShutdown
    /\ pcDriver = "apply" /\ Len(ops) = 1 /\ ~MustBeAlone(ops[1])
    /\ Len(opsSlot.ops) = 1 /\ MustBeAlone(opsSlot.ops[1])
    /\ opsSlot.ops[1].ts = ops[1].ts + 1
    /\ batcherOps.ops # <<>> /\ batcherOps.ops[1].ts = opsSlot.ops[1].ts + 1
    /\ oplogBuffer = <<>>

(***************************************************************************)
(* Claims about the markers while a batch is being applied.                *)
(***************************************************************************)

\* The workers of multiApply have been scheduled and multiApply has not
\* returned: some of them may be applying.
WorkersScheduled == pcFill = "waitForIdle" /\ pcDriver = "apply"

\* The process ended on a worker's failure, part of the batch applied.
FailedInApplication ==
    /\ pcDriver = "fatal"
    /\ pcFill = "applied"
    /\ multiApplyStatus \notin {"none", "OK", "CannotApplyOplogWhilePrimary"}

\* C38: with oplog writes enabled, while the workers of a batch are applying,
\* and when the process ends on the failure of one of them, every entry of the
\* batch is in the oplog, oplogTruncateAfterPoint is null and the persisted
\* minValid is at least the last optime of the batch, so at least the optime
\* of every operation that was or may have been applied.
C38_MarkersCoverPartialApplication ==
    (~skipWritesToOplog /\ (WorkersScheduled \/ FailedInApplication)) =>
        /\ \A i \in 1..Len(ops) : ops[i] \in oplogRs
        /\ oplogTruncateAfterPoint = NullOpTime
        /\ minValidDoc >= Last(ops)
        /\ \A i \in 1..Len(appliedLog) : minValidDoc >= appliedLog[i].opTime
        /\ \A w \in 1..numWriters : \A i \in 1..Len(writerVectors[w]) :
              minValidDoc >= writerVectors[w][i].opTime

\* One operation of the batch is applied and a worker is still in its loop,
\* at an operation that has not been applied.
C38_Witness ==
    /\ ~skipWritesToOplog
    /\ WorkersScheduled
    /\ appliedLog # <<>>
    /\ \E w \in 1..numWriters :
          /\ pcWorker[w] = "loop"
          /\ \A i \in 1..Len(appliedLog) :
                appliedLog[i].opTime # writerVectors[w][workerPos[w]].opTime
    /\ minValidDoc = Last(ops)

(***************************************************************************)
(* Claims about the finalizers.                                            *)
(***************************************************************************)

\* The plain finalizer has recorded a batch and the driver is not finishing
\* the next one: lastApplied is the optime at which the visibility of the
\* oplog was last registered.
PlainFinalizerRecorded ==
    /\ ~isDurable
    /\ pcDriver \notin {"register", "record", "fatal"}
    /\ oplogVisible # NullOpTime
    /\ myLastAppliedOpTime = oplogVisible

\* C32 as stated: with a storage engine that is not durable, after each batch
\* lastDurable and lastApplied are both the last optime of the batch.
C32_PlainFinalizerPublishesBoth ==
    PlainFinalizerRecorded =>
        /\ myLastAppliedOpTime = appliedThrough
        /\ myLastDurableOpTime = myLastAppliedOpTime

\* C32, amended: with a storage engine that is not durable, the finalizer
\* publishes the last optime of each batch as lastApplied, through the
\* forward-only setter, and nothing else: after each batch lastApplied is the
\* last optime of the batch, which is appliedThrough, and lastDurable is never
\* changed by the applier, so it stays at or below lastApplied.
C32_PlainFinalizerPublishesApplied ==
    /\ [][~isDurable =>
             /\ myLastDurableOpTime' = myLastDurableOpTime
             /\ myLastAppliedOpTime' >= myLastAppliedOpTime
             /\ (pcDriver = "record" /\ pcDriver' # pcDriver) =>
                   /\ myLastAppliedOpTime' = Last(ops)
                   /\ pcDriver' = "top"
                   /\ UNCHANGED finalizerVars]_vars
    /\ [](PlainFinalizerRecorded =>
             /\ myLastAppliedOpTime = appliedThrough
             /\ myLastDurableOpTime <= myLastAppliedOpTime)

\* Two batches have been recorded by the plain finalizer, lastDurable is
\* where it was when oplog application started.
C32_Witness ==
    /\ PlainFinalizerRecorded
    /\ pcDriver = "top"
    /\ lastAppliedOpTimeAtStartOfBatch \in oplogRs
    /\ myLastDurableOpTime < myLastAppliedOpTime

(***************************************************************************)
(* ApplyBatchFinalizerForJournal with its mutex and condition variable.    *)
(* Every block of code that runs under _mutex is one step.  The waiter is  *)
(* at "test" when it is about to take _mutex and evaluate the condition of *)
(* its wait, "blocked" inside _cond.wait, "woken" once a notification or a *)
(* spurious wake-up has ended the wait, "flush" inside waitUntilDurable.   *)
(* The driver is reduced to its calls of record() and to the destructor.   *)
(***************************************************************************)

\* The notification reaches nobody.
NotifyAllLost(waiter) == waiter

\* _cond.notify_all(): a thread blocked in _cond.wait is woken.
NotifyAll(waiter) == IF waiter = "blocked" THEN "woken" ELSE waiter

journalFrame ==
    /\ UNCHANGED <<memberState, maintenanceMode, markerVars, optionVars, batcherVars,
                   minValid, lastAppliedOpTimeAtStartOfBatch>>
    /\ UNCHANGED nonDriverVars

\* record(): _recordApplied with the last optime of a batch that was applied.
JournalRecordApplied ==
    /\ pcDriver = "top"
    /\ \E t \in 1..MaxOpTime :
          /\ t > myLastAppliedOpTime
          /\ ops' = <<t>>
          /\ myLastAppliedOpTime' = RecordApplied(myLastAppliedOpTime, t)
    /\ pcDriver' = "recordLatest"
    /\ UNCHANGED <<myLastDurableOpTime, finalizerVars>>
    /\ journalFrame

\* record(): under _mutex, store the optime and notify.
JournalRecordLatest ==
    /\ pcDriver = "recordLatest"
    /\ latestOpTime' = Last(ops)
    /\ pcWaiter' = NotifyAll(pcWaiter)
    /\ ops' = <<>>
    /\ pcDriver' = "top"
    /\ UNCHANGED <<myLastAppliedOpTime, myLastDurableOpTime, shutdownSignaled, waiterLatest>>
    /\ journalFrame

\* The destructor: under _mutex, set the flag and notify.
JournalDtor ==
    /\ pcDriver = "top"
    /\ shutdownSignaled' = TRUE
    /\ pcWaiter' = NotifyAll(pcWaiter)
    /\ pcDriver' = "join"
    /\ UNCHANGED <<myLastAppliedOpTime, myLastDurableOpTime, ops, latestOpTime, waiterLatest>>
    /\ journalFrame

\* _waiterThread.join() returns.
JournalJoin ==
    /\ pcDriver = "join"
    /\ pcWaiter = "exit"
    /\ pcDriver' = "done"
    /\ UNCHANGED <<myLastAppliedOpTime, myLastDurableOpTime, ops, finalizerVars>>
    /\ journalFrame

\* _run, under _mutex: the condition of the wait, then the wait itself, the
\* return on shutdown, or taking the optime and clearing it.
RunTest ==
    /\ pcWaiter \in {"test", "woken"}
    /\ IF latestOpTime = NullOpTime /\ ~shutdownSignaled
       THEN pcWaiter' = "blocked" /\ UNCHANGED <<latestOpTime, waiterLatest>>
       ELSE IF shutdownSignaled
       THEN pcWaiter' = "exit" /\ UNCHANGED <<latestOpTime, waiterLatest>>
       ELSE /\ waiterLatest' = latestOpTime
            /\ latestOpTime' = NullOpTime
            /\ pcWaiter' = "flush"
    /\ UNCHANGED <<myLastAppliedOpTime, myLastDurableOpTime, pcDriver, ops, shutdownSignaled>>
    /\ journalFrame

\* _cond.wait returns without a notification.
RunSpuriousWake ==
    /\ pcWaiter = "blocked"
    /\ pcWaiter' = "woken"
    /\ UNCHANGED <<myLastAppliedOpTime, myLastDurableOpTime, pcDriver, ops,
                   latestOpTime, shutdownSignaled, waiterLatest>>
    /\ journalFrame

\* _run: waitUntilDurable() has returned; _recordDurable, and round the loop.
RunRecordDurable ==
    /\ pcWaiter = "flush"
    /\ myLastDurableOpTime' = RecordDurable(myLastDurableOpTime, waiterLatest)
    /\ pcWaiter' = "test"
    /\ UNCHANGED <<myLastAppliedOpTime, pcDriver, ops,
                   latestOpTime, shutdownSignaled, waiterLatest>>
    /\ journalFrame

\* The thread has started and is about to take _mutex.
InitJournal ==
    /\ FillIdle /\ SweepIdle /\ PopIdle /\ ErrIdle /\ CatalogIdle
    /\ memberState = "RECOVERING"
    /\ maintenanceMode = FALSE
    /\ myLastAppliedOpTime \in {NullOpTime, 2}
    /\ myLastDurableOpTime \in {NullOpTime, myLastAppliedOpTime}
    /\ minValidDoc = NullOpTime
    /\ appliedThrough = myLastAppliedOpTime
    /\ oplogTruncateAfterPoint = NullOpTime
    /\ oplogRs = {}
    /\ oplogVisible = NullOpTime
    /\ isDurable = TRUE
    /\ skipWritesToOplog = FALSE
    /\ opsSlot = EmptyQueue
    /\ batcherDead = FALSE
    /\ pcDriver = "top"
    /\ minValid = NullOpTime
    /\ ops = <<>>
    /\ lastAppliedOpTimeAtStartOfBatch = NullOpTime
    /\ latestOpTime = NullOpTime
    /\ shutdownSignaled = FALSE
    /\ pcWaiter = "test"
    /\ waiterLatest = NullOpTime

WaiterThread == RunTest \/ RunRecordDurable

NextJournal ==
    \/ JournalRecordApplied
    \/ JournalRecordLatest
    \/ JournalDtor
    \/ JournalJoin
    \/ RunTest
    \/ RunSpuriousWake
    \/ RunRecordDurable

\* The waiter thread is scheduled and the journal flush completes; a call of
\* record() that has started finishes, and so does the join once the waiter
\* has returned.
SpecJournal ==
    /\ InitJournal
    /\ [][NextJournal]_vars
    /\ WF_vars(WaiterThread)
    /\ WF_vars(JournalRecordLatest)
    /\ WF_vars(JournalJoin)

\* C35: once the destructor has set the shutdown flag and notified, the
\* waiter returns, wherever it was (blocked in the wait, about to test the
\* condition, with an optime pending, or inside waitUntilDurable), and the
\* join completes.
C35_WaiterTerminatesOnShutdown ==
    /\ shutdownSignaled ~> (pcWaiter = "exit" /\ pcDriver = "done")
    /\ [](shutdownSignaled => pcWaiter # "blocked")
    /\ [][pcWaiter = "exit" => pcWaiter' = "exit"]_vars

\* The destructor has run while the waiter was inside waitUntilDurable, and
\* an optime is pending.
C35_Witness ==
    /\ shutdownSignaled
    /\ pcDriver = "join"
    /\ pcWaiter = "flush"
    /\ latestOpTime # NullOpTime

\* C40: without shutdown, lastDurable eventually is at least every optime
\* that record() has stored, so at least the most recent one; an optime
\* stored while the waiter is inside waitUntilDurable is taken on the next
\* round of the loop; the waiter takes only the latest optime stored.
C40_LastDurableCatchesUp ==
    /\ \A t \in 1..MaxOpTime :
          (latestOpTime = t) ~> (myLastDurableOpTime >= t \/ shutdownSignaled)
    /\ [](myLastDurableOpTime <= myLastAppliedOpTime)
    /\ [][(pcWaiter' = "flush" /\ pcWaiter # "flush") =>
             (waiterLatest' = latestOpTime /\ latestOpTime' = NullOpTime)]_vars

\* A second optime was stored while the waiter is inside waitUntilDurable
\* for the first, which is not durable yet.
C40_Witness ==
    /\ ~shutdownSignaled
    /\ pcWaiter = "flush"
    /\ waiterLatest # NullOpTime
    /\ latestOpTime > waiterLatest
    /\ myLastDurableOpTime < waiterLatest


(***************************************************************************)
(* DatabaseImpl: createCollection, renameCollection and dropCollection on  *)
(* one database.  Every call runs under the database lock in mode X, so a  *)
(* call is one step.  A namespace is a number, a drop-pending namespace    *)
(* the number makeDropPendingNamespace makes of a namespace and an optime. *)
(* The UUIDCatalog keeps the live collections by UUID and by namespace;    *)
(* _dbEntry is the storage catalog.  A storage call fails when the storage *)
(* catalog cannot do what is asked, or for a reason of its own.            *)
(***************************************************************************)
StorageResults == {"OK", "StorageError"}

\* UUIDCatalog::lookupCollectionByNamespace, through DatabaseImpl::getCollection
GetCollection(nss) == collections[nss]

\* UUIDCatalog::setCollectionNamespace
SetCollectionNamespace(cat, coll, fromNSS, toNSS) ==
    [byUuid |-> [cat.byUuid EXCEPT ![coll] = toNSS],
     byNs |-> [cat.byNs EXCEPT ![toNSS] = cat.byNs[fromNSS], ![fromNSS] = NoColl]]

\* _dbEntry->renameCollection: the status and the storage catalog after it.
DbEntryRenameCollection(fromNS, toNS, storageRet) ==
    IF dbEntry[fromNS] = NoColl THEN [status |-> "NamespaceNotFound", dbEntry |-> dbEntry]
    ELSE IF dbEntry[toNS] # NoColl THEN [status |-> "NamespaceExists", dbEntry |-> dbEntry]
    ELSE IF storageRet # "OK" THEN [status |-> storageRet, dbEntry |-> dbEntry]
    ELSE [status |-> "OK",
          dbEntry |-> [dbEntry EXCEPT ![toNS] = dbEntry[fromNS], ![fromNS] = NoColl]]

\* Mutant: the destination is not looked up before the rename.
renameCollectionOverwriting(fromNS, toNS, storageRet) ==
    LET cat == [byUuid |-> uuidCatalog, byNs |-> collections]
        collToRename == GetCollection(fromNS)
    IN  IF collToRename = NoColl
        THEN [status |-> "NamespaceNotFound", cat |-> cat, dbEntry |-> dbEntry]
        ELSE LET r == DbEntryRenameCollection(fromNS, toNS, storageRet)
             IN  [status |-> r.status,
                  cat |-> SetCollectionNamespace(cat, collToRename, fromNS, toNS),
                  dbEntry |-> r.dbEntry]

\* DatabaseImpl::renameCollection: the status returned, the UUIDCatalog and
\* the storage catalog after the call.
renameCollection(fromNS, toNS, storageRet) ==
    LET cat == [byUuid |-> uuidCatalog, byNs |-> collections]
        collToRename == GetCollection(fromNS)
    IN  IF GetCollection(toNS) # NoColl
        THEN [status |-> "NamespaceExists", cat |-> cat, dbEntry |-> dbEntry]
        ELSE IF collToRename = NoColl
        THEN [status |-> "NamespaceNotFound", cat |-> cat, dbEntry |-> dbEntry]
        ELSE LET r == DbEntryRenameCollection(fromNS, toNS, storageRet)
             IN  [status |-> r.status,
                  cat |-> SetCollectionNamespace(cat, collToRename, fromNS, toNS),
                  dbEntry |-> r.dbEntry]

Called(op, ns, to, status) ==
    lastCall' = [op |-> op, ns |-> ns, to |-> to, status |-> status, seq |-> 1 - lastCall.seq]

catalogFrame == UNCHANGED <<driverSide, fillVars, sweepVars, popVars, errVars>>

\* A caller renames a collection.  When the call fails in the storage
\* catalog the caller is left with a failed unit of work; what it does with
\* it is not followed.
CallRenameCollection ==
    /\ pcCatalog = "idle"
    /\ \E fromNS, toNS \in UserNamespaces, storageRet \in StorageResults :
          LET r == renameCollection(fromNS, toNS, storageRet)
          IN  /\ uuidCatalog' = r.cat.byUuid
              /\ collections' = r.cat.byNs
              /\ dbEntry' = r.dbEntry
              /\ Called("rename", fromNS, toNS, r.status)
              /\ pcCatalog' = IF r.status \in {"OK", "NamespaceExists", "NamespaceNotFound"}
                              THEN "idle" ELSE "renameFailed"
    /\ UNCHANGED lastDropOpTime
    /\ catalogFrame

\* DatabaseImpl::createCollection.  options.uuid is given (and then names no
\* live collection) or is missing; a missing one is generated when the node
\* accepts writes.  uassert and massert throw: the call ends and nothing
\* has changed.
CallCreateCollection ==
    /\ pcCatalog = "idle"
    /\ \E nss \in UserNamespaces, optionsUuid \in UUIDs \cup {NoColl},
          generated \in UUIDs, canAcceptWrites \in BOOLEAN, storageRet \in StorageResults :
          LET uuid == IF optionsUuid # NoColl THEN optionsUuid ELSE generated
          IN  /\ uuidCatalog[uuid] = NoNs
              /\ \A n \in Namespaces : dbEntry[n] # uuid
              /\ IF optionsUuid = NoColl /\ ~canAcceptWrites
                 THEN /\ Called("create", nss, NoNs, "InvalidOptions")
                      /\ UNCHANGED <<uuidCatalog, collections, dbEntry>>
                 ELSE IF GetCollection(nss) # NoColl
                 THEN /\ Called("create", nss, NoNs, "massert17399")
                      /\ UNCHANGED <<uuidCatalog, collections, dbEntry>>
                 ELSE IF dbEntry[nss] # NoColl \/ storageRet # "OK"
                 THEN /\ Called("create", nss, NoNs, "massertStatusOK")
                      /\ UNCHANGED <<uuidCatalog, collections, dbEntry>>
                 ELSE /\ dbEntry' = [dbEntry EXCEPT ![nss] = uuid]
                      /\ uuidCatalog' = [uuidCatalog EXCEPT ![uuid] = nss]
                      /\ collections' = [collections EXCEPT ![nss] = uuid]
                      /\ Called("create", nss, NoNs, "OK")
    /\ UNCHANGED <<lastDropOpTime, pcCatalog>>
    /\ catalogFrame

\* DatabaseImpl::dropCollection and dropCollectionEvenIfSystem on a user
\* collection with no index build in progress.  The drop is done at once
\* (unreplicated collection, or a storage engine that keeps drop-pending
\* collections itself) or the collection is renamed to its drop-pending
\* namespace, where a failure is fatal.
CallDropCollection ==
    /\ pcCatalog = "idle"
    /\ \E nss \in UserNamespaces, dropOpTime \in DropOpTimes \cup {NullOpTime},
          writesAreReplicated, isOplogDisabled, supportsPendingDrops \in BOOLEAN,
          newOpTime \in DropOpTimes, storageRet \in StorageResults :
          LET collection == GetCollection(nss)
              opTime == IF dropOpTime = NullOpTime THEN newOpTime ELSE dropOpTime
              dpns == MakeDropPendingNamespace(nss, opTime)
              r == renameCollection(nss, dpns, storageRet)
          IN  /\ dropOpTime # NullOpTime => dropOpTime > lastDropOpTime
              /\ newOpTime > lastDropOpTime
              /\ isOplogDisabled => dropOpTime = NullOpTime
              /\ (dropOpTime = NullOpTime /\ ~isOplogDisabled) => writesAreReplicated
              /\ IF collection = NoColl
                 THEN /\ Called("drop", nss, NoNs, "OK")
                      /\ UNCHANGED <<uuidCatalog, collections, dbEntry, lastDropOpTime,
                                     pcCatalog>>
                 ELSE IF dropOpTime # NullOpTime /\ writesAreReplicated
                 THEN /\ Called("drop", nss, NoNs, "BadValue")
                      /\ UNCHANGED <<uuidCatalog, collections, dbEntry, lastDropOpTime,
                                     pcCatalog>>
                 ELSE IF (dropOpTime = NullOpTime /\ isOplogDisabled) \/ supportsPendingDrops
                 THEN /\ IF storageRet = "OK"
                         THEN /\ dbEntry' = [dbEntry EXCEPT ![nss] = NoColl]
                              /\ uuidCatalog' = [uuidCatalog EXCEPT ![collection] = NoNs]
                              /\ collections' = [collections EXCEPT ![nss] = NoColl]
                         ELSE UNCHANGED <<uuidCatalog, collections, dbEntry>>
                      /\ Called("drop", nss, NoNs, storageRet)
                      /\ lastDropOpTime' = IF isOplogDisabled THEN lastDropOpTime ELSE opTime
                      /\ UNCHANGED pcCatalog
                 ELSE /\ uuidCatalog' = r.cat.byUuid
                      /\ collections' = r.cat.byNs
                      /\ dbEntry' = r.dbEntry
                      /\ lastDropOpTime' = opTime
                      /\ Called("drop", nss, dpns, IF r.status = "OK" THEN "OK" ELSE "fassert40464")
                      /\ pcCatalog' = IF r.status = "OK" THEN "idle" ELSE "fatal"
    /\ catalogFrame

\* The database is open and empty.
InitCatalog ==
    /\ ApplierStopped
    /\ SweepIdle
    /\ uuidCatalog = [u \in UUIDs |-> NoNs]
    /\ collections = [n \in Namespaces |-> NoColl]
    /\ dbEntry = [n \in Namespaces |-> NoColl]
    /\ lastDropOpTime = 0
    /\ lastCall = NoCall
    /\ pcCatalog = "idle"

NextCatalog ==
    \/ CallCreateCollection
    \/ CallRenameCollection
    \/ CallDropCollection

SpecCatalog == InitCatalog /\ [][NextCatalog]_vars

\* ---- claims about the catalog ----

\* The live collections by UUID and by namespace are the same collections:
\* one per UUID and one per namespace.
OneCollectionPerUuidAndNamespace ==
    /\ \A u \in UUIDs : uuidCatalog[u] # NoNs => collections[uuidCatalog[u]] = u
    /\ \A n \in Namespaces : collections[n] # NoColl => uuidCatalog[collections[n]] = n

\* This step is a call of renameCollection by a caller.
RenameCalled == lastCall'.seq # lastCall.seq /\ lastCall'.op = "rename"

\* C33: whatever calls were made, the catalog holds one live collection per
\* UUID and per namespace; and a renameCollection that returns OK moves the
\* collection of the source namespace, with its UUID, to the target
\* namespace, leaves the source namespace without a collection, and leaves
\* every other collection where it was.
C33_CatalogMapsAgreeRenameMovesOne ==
    /\ []OneCollectionPerUuidAndNamespace
    /\ [][(RenameCalled /\ lastCall'.status = "OK") =>
             LET fromNS == lastCall'.ns
                 toNS == lastCall'.to
                 coll == collections[fromNS]
             IN  /\ coll # NoColl
                 /\ collections[toNS] = NoColl
                 /\ collections'[toNS] = coll
                 /\ collections'[fromNS] = NoColl
                 /\ uuidCatalog'[coll] = toNS
                 /\ \A n \in Namespaces \ {fromNS, toNS} : collections'[n] = collections[n]
                 /\ \A u \in UUIDs \ {coll} : uuidCatalog'[u] = uuidCatalog[u]]_vars

\* A collection has been renamed while the other collection of the database
\* was live, after a collection had been dropped to a drop-pending
\* namespace.
C33_Witness ==
    /\ lastCall.op = "rename" /\ lastCall.status = "OK"
    /\ collections[lastCall.to] # NoColl /\ collections[lastCall.ns] = NoColl
    /\ \E n \in UserNamespaces \ {lastCall.to} : collections[n] # NoColl
    /\ lastDropOpTime > 0

\* C39: a renameCollection that does not return OK has left the catalog as
\* it was: the same collections under the same namespaces.
C39_FailedRenameLeavesCatalog ==
    [][(RenameCalled /\ lastCall'.status # "OK") =>
          /\ collections' = collections
          /\ uuidCatalog' = uuidCatalog]_vars

====
